---- MODULE Spec2Model ----
(***************************************************************************)
(* A model of the BTOR2 parser of btor2-opt (src/src/btoropt/parser.py)   *)
(* and of the instruction model it builds (src/src/btoropt/program.py).   *)
(*                                                                         *)
(* Text.  A line is kept as the list of tokens line.split(" ") returns.   *)
(* A token is a sequence of symbols: a number is the sequence of its      *)
(* digits (<<"1","0">> is "10"), a keyword or a name is one symbol        *)
(* (<<"sort">>).  A serialized program is a sequence of symbols in which  *)
(* " " and "\n" occur as symbols of their own.                            *)
(*                                                                         *)
(* Objects.  Python compares Instruction objects by identity, so the      *)
(* model keeps a heap: heap[a] is the object at address a, an operand     *)
(* that is an instruction is the address of that instruction, and None is *)
(* the operand NoneOp (address 0 in an instruction list).                 *)
(***************************************************************************)
EXTENDS Integers, Sequences, FiniteSets, TLC

\* Longest line sequence handed to the parser.
MaxLines == 3

----------------------------------------------------------------------------
(* Results of a call: a value, or the exception the call raises. *)

Ok(v) == [st |-> "ok", err |-> "", val |-> v]

Raise(e) == [st |-> "raise", err |-> e, val |-> <<>>]

\* The rest F of a computation runs on the value of r, unless r raised.
Bind(r, F(_)) == IF r.st = "raise" THEN r ELSE F(r.val)

\* A local name for the value v in F.
With(v, F(_)) == F(v)

Min(S) == CHOOSE x \in S : \A y \in S : x <= y

Max(S) == CHOOSE x \in S : \A y \in S : x >= y

----------------------------------------------------------------------------
(* Python's int(str, base) and str(int). *)

DigitVal(c) ==
  CASE c = "0" -> 0 [] c = "1" -> 1 [] c = "2" -> 2 [] c = "3" -> 3
    [] c = "4" -> 4 [] c = "5" -> 5 [] c = "6" -> 6 [] c = "7" -> 7
    [] c = "8" -> 8 [] c = "9" -> 9 [] c = "a" -> 10 [] c = "b" -> 11
    [] c = "c" -> 12 [] c = "d" -> 13 [] c = "e" -> 14 [] c = "f" -> 15
    [] OTHER -> 99

\* int(tok, base) succeeds: a non-empty string of digits of that base.
IntOk(tok, base) ==
  /\ Len(tok) > 0
  /\ \A i \in 1..Len(tok) : DigitVal(tok[i]) < base

RECURSIVE IntVal(_, _)
IntVal(tok, base) ==
  IF Len(tok) = 0 THEN 0
  ELSE IntVal(SubSeq(tok, 1, Len(tok) - 1), base) * base + DigitVal(tok[Len(tok)])

\* int(tok, base): the value, or ValueError.
int(tok, base) ==
  IF IntOk(tok, base) THEN Ok(IntVal(tok, base)) ELSE Raise("ValueError")

DigitChar(d) ==
  CASE d = 0 -> "0" [] d = 1 -> "1" [] d = 2 -> "2" [] d = 3 -> "3"
    [] d = 4 -> "4" [] d = 5 -> "5" [] d = 6 -> "6" [] d = 7 -> "7"
    [] d = 8 -> "8" [] OTHER -> "9"

RECURSIVE StrNat(_)
StrNat(n) ==
  IF n < 10 THEN <<DigitChar(n)>>
  ELSE StrNat(n \div 10) \o <<DigitChar(n % 10)>>

\* str(n) of an integer.
str(n) == IF n < 0 THEN <<"-">> \o StrNat(0 - n) ELSE StrNat(n)

\* s.strip(): leading and trailing whitespace removed.
IsSpace(c) == c \in {" ", "\n"}

RECURSIVE strip(_)
strip(tok) ==
  IF Len(tok) = 0 THEN tok
  ELSE IF IsSpace(tok[1]) THEN strip(Tail(tok))
  ELSE IF IsSpace(tok[Len(tok)]) THEN strip(SubSeq(tok, 1, Len(tok) - 1))
  ELSE tok

\* The characters of a string, each as a string of length one.
Chars(tok) == [i \in 1..Len(tok) |-> <<tok[i]>>]

----------------------------------------------------------------------------
(* program.py: tags, the Instruction classes, eq, serialize, get_inst. *)

\* All supported btor2 instruction tags.
tags ==
  {"sort", "input", "output", "bad", "constraint", "zero",
   "one", "ones", "constd", "consth", "const", "state",
   "init", "next", "slice", "ite", "implies", "iff",
   "add", "sub", "mul", "sdiv", "udiv", "smod", "sll",
   "srl", "sra", "and", "or", "xor", "concat",
   "not", "inc", "dec", "neg", "redor", "redxor", "redand",
   "eq", "neq", "ugt", "sgt", "ugte", "sgte", "ult",
   "slt", "ulte", "slte", "uext", "sext"}

\* All legal sort types.
sort_tags == {"bitvector", "bitvec", "array"}

\* An element of an operand list: an Instruction object (by address), an
\* int, a str, or None.
Ref(a) == [k |-> "ref", ref |-> a, n |-> 0, tok |-> <<>>]

IntOp(n) == [k |-> "int", ref |-> 0, n |-> n, tok |-> <<>>]

StrOp(t) == [k |-> "str", ref |-> 0, n |-> 0, tok |-> t]

NoneOp == [k |-> "none", ref |-> 0, n |-> 0, tok |-> <<>>]

\* Instruction.__init__(lid, inst, operands): cls is the Python class (the
\* classes are named by their tags), the other fields are those the
\* subclasses add.
Instruction(lid, inst, operands) ==
  [cls |-> inst, lid |-> lid, inst |-> inst, operands |-> operands,
   typ |-> "", width |-> 0, highbit |-> 0, lowbit |-> 0,
   name |-> <<>>, value |-> 0, sid |-> 0]

\* op.lid for an element of an operand list (None, an int and a str have
\* no attribute lid).
LidOf(h, op) ==
  IF op.k = "ref" THEN Ok(h[op.ref].lid) ELSE Raise("AttributeError")

Sort(lid, typ, width) ==
  Ok([Instruction(lid, "sort", <<>>) EXCEPT !.typ = typ, !.width = width])

\* Input and State: one Sort operand, a name, and sid = sort.lid.
NamedOp(h, tag, lid, sort, name) ==
  Bind(LidOf(h, sort), LAMBDA sid :
    Ok([Instruction(lid, tag, <<sort>>) EXCEPT !.name = name, !.sid = sid]))

Input(h, lid, sort, name) == NamedOp(h, "input", lid, sort, name)

State(h, lid, sort, name) == NamedOp(h, "state", lid, sort, name)

\* Output.__init__(self, lid, out) takes no name; parse_inst passes one.
Output(lid, out, name) == Raise("TypeError")

\* Bad and Constraint.
CondOp(tag, lid, cond) == Ok(Instruction(lid, tag, <<cond>>))

\* Zero and One read sort.lid; Ones does not.
ZeroOp(h, tag, lid, sort) ==
  IF tag = "ones" THEN Ok(Instruction(lid, tag, <<sort>>))
  ELSE Bind(LidOf(h, sort), LAMBDA sid :
         Ok([Instruction(lid, tag, <<sort>>) EXCEPT !.sid = sid]))

\* Constd, Consth and Const.
ConstOp(h, tag, lid, sort, value) ==
  Bind(LidOf(h, sort), LAMBDA sid :
    Ok([Instruction(lid, tag, <<sort>>) EXCEPT !.value = value, !.sid = sid]))

\* The classes built from (lid, sort, a, b); Next also reads state.lid.
TernaryOp(h, tag, lid, ops) ==
  IF tag = "next" /\ LidOf(h, ops[2]).st = "raise" THEN Raise("AttributeError")
  ELSE Ok(Instruction(lid, tag, ops))

Slice(lid, sort, op, highbit, lowbit) ==
  Ok([Instruction(lid, "slice", <<sort, op>>) EXCEPT
        !.highbit = highbit, !.lowbit = lowbit, !.width = highbit - lowbit + 1])

Ite(lid, ops) == Ok(Instruction(lid, "ite", ops))

\* Not, Inc, Dec, Neg, Redor, Redxor, Redand.
UnaryOp(tag, lid, ops) == Ok(Instruction(lid, tag, ops))

\* Uext and Sext keep width and name in the operand list; a Uext of width 0
\* also reads op.lid.
ExtOp(h, tag, lid, sort, op, width, name) ==
  IF tag = "uext" /\ width = 0 /\ LidOf(h, op).st = "raise"
  THEN Raise("AttributeError")
  ELSE Ok([Instruction(lid, tag, <<sort, op, IntOp(width), StrOp(name)>>) EXCEPT
             !.width = width,
             !.name = IF tag = "uext" /\ width = 0 THEN name ELSE <<>>])

\* x.eq(y): the operand lists are equal (objects compare by identity), the
\* opcodes are equal, and so are the fields the class of x compares.
eq(x, y) ==
  /\ x.operands = y.operands
  /\ x.inst = y.inst
  /\ CASE x.cls = "sort" -> x.typ = y.typ /\ x.width = y.width
       [] x.cls \in {"input", "state"} -> x.name = y.name
       [] x.cls \in {"constd", "consth", "const"} -> x.value = y.value
       [] x.cls = "slice" -> x.highbit = y.highbit /\ x.lowbit = y.lowbit
       [] OTHER -> TRUE

\* ' '.join(parts)
RECURSIVE join(_, _)
join(sep, parts) ==
  IF Len(parts) = 0 THEN <<>>
  ELSE IF Len(parts) = 1 THEN parts[1]
  ELSE parts[1] \o sep \o join(sep, Tail(parts))

\* x.serialize() for the object x; the assertion of Instruction.serialize
\* fails on an operand that is neither an Instruction nor an int, and
\* formatting its message ("%d" % self.operands) raises TypeError.
serialize(h, x) ==
  IF \E i \in 1..Len(x.operands) : x.operands[i].k \notin {"ref", "int"}
  THEN Raise("TypeError")
  ELSE
    LET part(op) == (IF op.k = "ref" THEN str(h[op.ref].lid) ELSE str(op.n)) \o <<" ">>
        base == str(x.lid) \o <<" ">> \o <<x.inst>> \o <<" ">> \o
                join(<<" ">>, [i \in 1..Len(x.operands) |-> part(x.operands[i])])
        extra == CASE x.cls = "sort" -> <<x.typ>> \o <<" ">> \o str(x.width)
                   [] x.cls \in {"input", "state"} -> x.name
                   [] x.cls \in {"constd", "consth", "const"} -> str(x.value)
                   [] x.cls = "slice" -> str(x.width) \o <<" ">> \o str(x.lowbit)
                   [] OTHER -> <<>>
    IN Ok(base \o extra)

\* serialize_p(p): every instruction's text followed by a newline.
RECURSIVE serialize_p(_, _)
serialize_p(h, p) ==
  IF Len(p) = 0 THEN Ok(<<>>)
  ELSE Bind(serialize_p(h, SubSeq(p, 1, Len(p) - 1)), LAMBDA acc :
         IF p[Len(p)] = 0 THEN Raise("AttributeError")
         ELSE Bind(serialize(h, h[p[Len(p)]]), LAMBDA t : Ok(acc \o t \o <<"\n">>)))

\* get_inst(p, lid): the first instruction of p with that lid, or None.
get_inst(h, p, lid) ==
  IF \E i \in 1..Len(p) : p[i] = 0 THEN Raise("AttributeError")
  ELSE With({i \in 1..Len(p) : h[p[i]].lid = lid}, LAMBDA ops :
         IF ops # {} THEN Ok(Ref(p[Min(ops)])) ELSE Ok(NoneOp))

----------------------------------------------------------------------------
(* parser.py: the Parser class.  A Parser object is the record            *)
(* [p, p_str, context, done]; p is a list of addresses (0 for None) and   *)
(* context a set of <<lid, address>> pairs, one per key.  The assertions  *)
(* are named after what they check.                                       *)

\* Parser.__init__(p_str)
Parser(p_str) == [p |-> <<>>, p_str |-> p_str, context |-> {}, done |-> FALSE]

\* Parser.clear(p_str)
clear(self, p_str) == [self EXCEPT !.p = <<>>, !.p_str = p_str, !.context = {}, !.done = FALSE]

\* A lookup that lacks the assertion of find_inst: the answer of get_inst
\* as it is, None included.
find_inst_unchecked(h, p, id) == get_inst(h, p, id)

\* Parser.find_inst(id): get_inst, and an assertion that it found something.
find_inst(h, p, id) ==
  Bind(get_inst(h, p, id), LAMBDA inst :
    IF inst.k = "none" THEN Raise("UndeclaredInstruction") ELSE Ok(inst))

\* Parser.defer(ids): Instruction(int(id)) for every element of ids, in
\* order.  Instruction.__init__ has a second required parameter, inst, so
\* the first call raises TypeError once int(id) has been evaluated.
defer(ids) ==
  IF Len(ids) = 0 THEN Ok(<<>>)
  ELSE Bind(int(ids[1], 10), LAMBDA id : Raise("TypeError"))

\* tuple(map(lambda i: self.find_inst(int(i)), ids))
RECURSIVE find_all(_, _, _)
find_all(h, p, ids) ==
  IF Len(ids) = 0 THEN Ok(<<>>)
  ELSE Bind(int(ids[1], 10), LAMBDA id :
       Bind(find_inst(h, p, id), LAMBDA op :
       Bind(find_all(h, p, Tail(ids)), LAMBDA rest : Ok(<<op>> \o rest))))

\* self.defer(inst[i:j]) if deferred else the eager lookups.
operands_of(h, p, ids, deferred) ==
  IF deferred THEN defer(ids) ELSE find_all(h, p, ids)

\* self.defer(inst[2])[0] if deferred else self.find_inst(int(inst[2])):
\* defer is handed the string inst[2] and maps over its characters.
operand_of(h, p, tok, deferred) ==
  IF deferred
  THEN Bind(defer(Chars(tok)), LAMBDA d :
         IF Len(d) = 0 THEN Raise("IndexError") ELSE Ok(d[1]))
  ELSE Bind(int(tok, 10), LAMBDA id : find_inst(h, p, id))

\* The value None where an instruction is expected.
None == [Instruction(0, "", <<>>) EXCEPT !.cls = "NoneType"]

\* A token as an opcode.
TagOf(tok) == IF Len(tok) = 1 THEN tok[1] ELSE "?"

\* inst[3].strip() if there is a fourth field, else f"{tag}_{inst[0]}".
name_of(inst, tag, at) ==
  IF Len(inst) >= at THEN strip(inst[at]) ELSE <<tag, "_">> \o inst[1]

\* case "sort"
parse_sort(inst, lid) ==
  IF Len(inst) < 4 THEN Raise("MalformedInstruction")
  ELSE IF TagOf(inst[3]) \notin sort_tags THEN Raise("BadSortType")
  ELSE Bind(int(inst[4], 10), LAMBDA width : Sort(lid, TagOf(inst[3]), width))

\* case "input", case "state"
parse_named(h, p, inst, lid, tag, deferred) ==
  IF Len(inst) < 3 THEN Raise("MalformedInstruction")
  ELSE Bind(operand_of(h, p, inst[3], deferred), LAMBDA sort :
         IF tag = "input" THEN Input(h, lid, sort, name_of(inst, tag, 4))
         ELSE State(h, lid, sort, name_of(inst, tag, 4)))

\* case "output"
parse_output(h, p, inst, lid, deferred) ==
  IF Len(inst) < 3 THEN Raise("MalformedInstruction")
  ELSE Bind(operand_of(h, p, inst[3], deferred), LAMBDA out :
         Output(lid, out, name_of(inst, "output", 4)))

\* case "bad", case "constraint"
parse_cond(h, p, inst, lid, tag, deferred) ==
  IF Len(inst) < 3 THEN Raise("MalformedInstruction")
  ELSE Bind(operand_of(h, p, inst[3], deferred), LAMBDA cond : CondOp(tag, lid, cond))

\* case "zero", case "one", case "ones"
parse_zero(h, p, inst, lid, tag, deferred) ==
  IF Len(inst) < 3 THEN Raise("MalformedInstruction")
  ELSE Bind(operand_of(h, p, inst[3], deferred), LAMBDA sort : ZeroOp(h, tag, lid, sort))

\* The base handed to int() for the value of a constant: int(inst[3]) for
\* constd and for consth, int(inst[3], 2) for const.
const_base(tag) == IF tag = "const" THEN 2 ELSE 10

\* case "constd", case "consth", case "const"
parse_const(h, p, inst, lid, tag, deferred) ==
  IF Len(inst) < 4 THEN Raise("MalformedInstruction")
  ELSE Bind(operand_of(h, p, inst[3], deferred), LAMBDA sort :
       Bind(int(inst[4], const_base(tag)), LAMBDA value :
         ConstOp(h, tag, lid, sort, value)))

\* case "init", "next", "implies", "iff" and the binary operations
parse_ternary(h, p, inst, lid, tag, deferred) ==
  IF Len(inst) < 5 THEN Raise("MalformedInstruction")
  ELSE Bind(operands_of(h, p, SubSeq(inst, 3, 5), deferred), LAMBDA ops :
         TernaryOp(h, tag, lid, ops))

\* case "slice"
parse_slice(h, p, inst, lid, deferred) ==
  IF Len(inst) < 6 THEN Raise("MalformedInstruction")
  ELSE Bind(operands_of(h, p, SubSeq(inst, 3, 4), deferred), LAMBDA ops :
       Bind(int(inst[5], 10), LAMBDA highbit :
       Bind(int(inst[6], 10), LAMBDA lowbit :
         Slice(lid, ops[1], ops[2], highbit, lowbit))))

\* case "ite"
parse_ite(h, p, inst, lid, deferred) ==
  IF Len(inst) < 6 THEN Raise("MalformedInstruction")
  ELSE Bind(operands_of(h, p, SubSeq(inst, 3, 6), deferred), LAMBDA ops : Ite(lid, ops))

\* case "not", "inc", "dec", "neg", "redor", "redand", "redxor"
parse_unary(h, p, inst, lid, tag, deferred) ==
  IF Len(inst) < 4 THEN Raise("MalformedInstruction")
  ELSE Bind(operands_of(h, p, SubSeq(inst, 3, 4), deferred), LAMBDA ops :
         UnaryOp(tag, lid, ops))

\* case "uext", case "sext"
parse_ext(h, p, inst, lid, tag, deferred) ==
  IF Len(inst) < 5 THEN Raise("MalformedInstruction")
  ELSE Bind(operands_of(h, p, SubSeq(inst, 3, 4), deferred), LAMBDA ops :
       Bind(int(inst[5], 10), LAMBDA width :
         ExtOp(h, tag, lid, ops[1], ops[2], width, name_of(inst, tag, 6))))

\* The match statement of parse_inst.
parse_tag(h, p, inst, lid, tag, deferred) ==
  CASE tag = "sort" -> parse_sort(inst, lid)
    [] tag \in {"input", "state"} -> parse_named(h, p, inst, lid, tag, deferred)
    [] tag = "output" -> parse_output(h, p, inst, lid, deferred)
    [] tag \in {"bad", "constraint"} -> parse_cond(h, p, inst, lid, tag, deferred)
    [] tag \in {"zero", "one", "ones"} -> parse_zero(h, p, inst, lid, tag, deferred)
    [] tag \in {"constd", "consth", "const"} -> parse_const(h, p, inst, lid, tag, deferred)
    [] tag = "slice" -> parse_slice(h, p, inst, lid, deferred)
    [] tag = "ite" -> parse_ite(h, p, inst, lid, deferred)
    [] tag \in {"not", "inc", "dec", "neg", "redor", "redand", "redxor"} ->
         parse_unary(h, p, inst, lid, tag, deferred)
    [] tag \in {"uext", "sext"} -> parse_ext(h, p, inst, lid, tag, deferred)
    [] OTHER -> parse_ternary(h, p, inst, lid, tag, deferred)

\* Parser.parse_inst(line, deferred): inst is line.split(" "); the value
\* is the instruction built, or None for a comment.
parse_inst(h, p, inst, deferred) ==
  IF inst[1] = <<";">> THEN Ok(None)
  ELSE Bind(int(inst[1], 10), LAMBDA lid :
         IF Len(inst) < 2 THEN Raise("IndexError")
         ELSE IF TagOf(inst[2]) \notin tags THEN Raise("UnsupportedOperation")
         ELSE parse_tag(h, p, inst, lid, TagOf(inst[2]), deferred))

\* What a method call leaves behind: the Parser object, the heap, and
\* whether the call returned or raised (and at which line of p_str).
Returned(self, h) == [self |-> self, heap |-> h, st |-> "returned", err |-> "", line |-> 0]

Raised(self, h, e, i) == [self |-> self, heap |-> h, st |-> "raised", err |-> e, line |-> i]

\* The loop of parseSeq from line i on: an instruction is appended to
\* self.p as soon as its line is parsed.
RECURSIVE parseSeqFrom(_, _, _)
parseSeqFrom(self, h, i) ==
  IF i > Len(self.p_str) THEN Returned([self EXCEPT !.done = TRUE], h)
  ELSE With(parse_inst(h, self.p, self.p_str[i], FALSE), LAMBDA op :
         CASE op.st = "raise" -> Raised(self, h, op.err, i)
           [] op.val.cls = "NoneType" -> parseSeqFrom(self, h, i + 1)
           [] OTHER -> parseSeqFrom([self EXCEPT !.p = Append(@, Len(h) + 1)],
                                    Append(h, op.val), i + 1))

\* Parser.parseSeq()
parseSeq(self, h) ==
  IF self.done THEN Raised(self, h, "ParserNotCleared", 0)
  ELSE parseSeqFrom(self, h, 1)

\* list(map(self.parse_inst, self.p_str)) from line i on; parse_inst runs
\* with its default deferred=True and a comment line yields None.  The
\* value is the list built, with the heap and the line that raised.
RECURSIVE parse_lines(_, _, _, _)
parse_lines(self, h, i, acc) ==
  IF i > Len(self.p_str) THEN [st |-> "ok", err |-> "", line |-> 0, heap |-> h, p |-> acc]
  ELSE With(parse_inst(h, self.p, self.p_str[i], TRUE), LAMBDA op :
         CASE op.st = "raise" ->
                [st |-> "raise", err |-> op.err, line |-> i, heap |-> h, p |-> acc]
           [] op.val.cls = "NoneType" -> parse_lines(self, h, i + 1, Append(acc, 0))
           [] OTHER -> parse_lines(self, Append(h, op.val), i + 1, Append(acc, Len(h) + 1)))

\* dict(map(lambda inst: (inst.lid, inst), p)): the last instruction with
\* a lid is the one the dict keeps.
make_context(h, p) ==
  {<<h[p[i]].lid, p[i]>> : i \in {j \in 1..Len(p) :
        \A k \in (j + 1)..Len(p) : h[p[k]].lid # h[p[j]].lid}}

\* self.context.get(lid)
context_get(context, lid) ==
  IF \E e \in context : e[1] = lid
  THEN Ref((CHOOSE e \in context : e[1] = lid)[2])
  ELSE NoneOp

\* Parser.resolveIds(inst) for the instruction at address a: every operand
\* is replaced by context.get(op.lid).
resolveIds(self, h, a) ==
  IF \E j \in 1..Len(h[a].operands) : h[a].operands[j].k # "ref"
  THEN Raise("AttributeError")
  ELSE Ok([h EXCEPT ![a].operands =
             [j \in 1..Len(h[a].operands) |->
                context_get(self.context, h[h[a].operands[j].ref].lid)]])

\* list(map(self.resolveIds, self.p)) from element i on; val is the heap
\* as the call leaves it.
RECURSIVE resolve_all(_, _, _)
resolve_all(self, h, i) ==
  IF i > Len(self.p) THEN [st |-> "ok", err |-> "", val |-> h]
  ELSE With(resolveIds(self, h, self.p[i]), LAMBDA r :
         IF r.st = "raise" THEN [st |-> "raise", err |-> r.err, val |-> h]
         ELSE resolve_all(self, r.val, i + 1))

\* The rest of parseDeferred once self.p is the list ph1.p: the context is
\* built, then every instruction is resolved.
parseDeferredResolve(self, h) ==
  IF \E i \in 1..Len(self.p) : self.p[i] = 0
  THEN Raised(self, h, "AttributeError", Min({i \in 1..Len(self.p) : self.p[i] = 0}))
  ELSE With([self EXCEPT !.context = make_context(h, self.p)], LAMBDA self2 :
       With(resolve_all(self2, h, 1), LAMBDA ph3 :
         IF ph3.st = "raise" THEN Raised(self2, ph3.val, ph3.err, 0)
         ELSE Returned([self2 EXCEPT !.done = TRUE], ph3.val)))

\* Parser.parseDeferred()
parseDeferred(self, h) ==
  IF self.done THEN Raised(self, h, "ParserNotCleared", 0)
  ELSE With(parse_lines(self, h, 1, <<>>), LAMBDA ph1 :
         IF ph1.st = "raise" THEN Raised(self, ph1.heap, ph1.err, ph1.line)
         ELSE parseDeferredResolve([self EXCEPT !.p = ph1.p], ph1.heap))

\* parse(p_str, deferred): a fresh Parser, one of the two strategies, and
\* parse.p as the result.
parse(h, p_str, deferred) ==
  IF deferred THEN parseDeferred(Parser(p_str), h) ELSE parseSeq(Parser(p_str), h)

----------------------------------------------------------------------------
(* passes: the registry and the three passes.  A run of a pass leaves     *)
(* behind the heap and either the list it returns or the exception.       *)

PassOk(h, p) == [st |-> "ok", err |-> "", heap |-> h, p |-> p]

PassRaised(e, h) == [st |-> "raised", err |-> e, heap |-> h, p |-> <<>>]

\* x.eq(op) for an element op of an operand list: eq reads op.operands,
\* which an int, a str and None do not have.
eq_op(h, x, op) ==
  IF op.k = "ref" THEN Ok(eq(x, h[op.ref])) ELSE Raise("AttributeError")

\* x.isin(operands): the elements are compared in order up to the first
\* that is equal.
RECURSIVE isin(_, _, _)
isin(h, x, operands) ==
  IF Len(operands) = 0 THEN Ok(FALSE)
  ELSE Bind(eq_op(h, x, operands[1]), LAMBDA b :
         IF b THEN Ok(TRUE) ELSE isin(h, x, Tail(operands)))

\* The sort an Input carries: its first operand.
attr_sort_operand(x) == Ok(x.operands[1])

\* inst.sort: no class of program.py sets an attribute of that name.
attr_sort(x) == Raise("AttributeError")

\* f"inp_{i}"
inp_name(i) == <<"inp", "_">> \o str(i)

\* The loop of RenameInputs.run from element n on; i counts the inputs
\* seen and res is the list built.
RECURSIVE rename_loop(_, _, _, _, _)
rename_loop(h, p, n, i, res) ==
  IF n > Len(p) THEN PassOk(h, res)
  ELSE IF h[p[n]].cls = "input"
  THEN With(Bind(attr_sort(h[p[n]]), LAMBDA sort :
                   Input(h, h[p[n]].lid, sort, inp_name(i))), LAMBDA r :
         IF r.st = "raise" THEN PassRaised(r.err, h)
         ELSE rename_loop(Append(h, r.val), p, n + 1, i + 1, Append(res, Len(h) + 1)))
  ELSE rename_loop(h, p, n + 1, i, Append(res, p[n]))

\* RenameInputs.run(p)
RenameInputs_run(h, p) == rename_loop(h, p, 1, 0, <<>>)

\* next((op for op in p if (s.isin(op.operands) and isinstance(op, Init))),
\* None) from element n of p on, for the state at address s: the address
\* of the Init found, or 0 for None.
RECURSIVE find_init(_, _, _, _)
find_init(h, p, s, n) ==
  IF n > Len(p) THEN Ok(0)
  ELSE Bind(isin(h, h[s], h[p[n]].operands), LAMBDA b :
         IF b /\ h[p[n]].cls = "init" THEN Ok(p[n]) ELSE find_init(h, p, s, n + 1))

\* uninit_states: the states of p, from element n on, whose initop is None.
RECURSIVE uninit_states(_, _, _)
uninit_states(h, p, n) ==
  IF n > Len(p) THEN Ok(<<>>)
  ELSE IF h[p[n]].cls # "state" THEN uninit_states(h, p, n + 1)
  ELSE Bind(find_init(h, p, p[n], 1), LAMBDA initop :
       Bind(uninit_states(h, p, n + 1), LAMBDA rest :
         Ok(IF initop = 0 THEN <<p[n]>> \o rest ELSE rest)))

\* inst.isin(uninit_states), a list of State objects.
isin_states(h, a, states) ==
  \E i \in 1..Len(states) : eq(h[a], h[states[i]])

\* The second loop of InitAllStates.run from element n on; lid is the next
\* lid and res the list built.  An uninitialized state is followed by a
\* Constd of value 0 and an Init.
RECURSIVE init_loop(_, _, _, _, _, _)
init_loop(h, p, uninit, n, lid, res) ==
  IF n > Len(p) THEN PassOk(h, res)
  ELSE IF h[p[n]].cls = "state" /\ isin_states(h, p[n], uninit)
  THEN With([h EXCEPT ![p[n]].lid = lid], LAMBDA h1 :
       With(ConstOp(h1, "constd", lid + 1, h1[p[n]].operands[1], 0), LAMBDA zero :
         IF zero.st = "raise" THEN PassRaised(zero.err, h1)
         ELSE With(Append(h1, zero.val), LAMBDA h2 :
              With(TernaryOp(h2, "init", lid + 2,
                             <<h2[p[n]].operands[1], Ref(p[n]), Ref(Len(h2))>>), LAMBDA init :
                IF init.st = "raise" THEN PassRaised(init.err, h2)
                ELSE init_loop(Append(h2, init.val), p, uninit, n + 1, lid + 3,
                               res \o <<p[n], Len(h2), Len(h2) + 1>>)))))
  ELSE init_loop([h EXCEPT ![p[n]].lid = lid], p, uninit, n + 1, lid + 1,
                 Append(res, p[n]))

\* The pass with its counter started at 0 instead of 1.
InitAllStates_run_from0(h, p) ==
  With(uninit_states(h, p, 1), LAMBDA u :
    IF u.st = "raise" THEN PassRaised(u.err, h)
    ELSE init_loop(h, p, u.val, 1, 0, <<>>))

\* InitAllStates.run(p)
InitAllStates_run(h, p) ==
  With(uninit_states(h, p, 1), LAMBDA u :
    IF u.st = "raise" THEN PassRaised(u.err, h)
    ELSE init_loop(h, p, u.val, 1, 1, <<>>))

\* The pass numbering from 1 instead of from 0.
CheckLidOrdering_run_from1(h, p) ==
  PassOk([a \in 1..Len(h) |->
            IF \E i \in 1..Len(p) : p[i] = a
            THEN [h[a] EXCEPT !.lid = Max({i \in 1..Len(p) : p[i] = a})]
            ELSE h[a]], p)

\* CheckLidOrdering.run(p): inst.lid = i for i in range(len(p)).
CheckLidOrdering_run(h, p) ==
  PassOk([a \in 1..Len(h) |->
            IF \E i \in 1..Len(p) : p[i] = a
            THEN [h[a] EXCEPT !.lid = Max({i \in 1..Len(p) : p[i] = a}) - 1]
            ELSE h[a]], p)

\* all_passes, by the ids the passes are constructed with.
all_passes == <<"rename-inputs", "init-all-states", "check-lid-ordering">>

\* find_pass(all_passes, id): the pass, or None.
find_pass(p, id) ==
  IF \E i \in 1..Len(p) : p[i] = id THEN id ELSE "None"

\* pass.run(p) for the pass with that id.
run(id, h, p) ==
  CASE id = "rename-inputs" -> RenameInputs_run(h, p)
    [] id = "init-all-states" -> InitAllStates_run(h, p)
    [] OTHER -> CheckLidOrdering_run(h, p)


----------------------------------------------------------------------------
(* __main__: the driver.  sys.argv is the program name, an optional        *)
(* --option (the empty string when there is none), the design file and the *)
(* pass names.  A run leaves behind the heap, how it ended, the ids of the *)
(* passes whose run was called, and the heap as the parser left it.        *)

MOD == "modular"

\* DEF of the source ("DEF" is a reserved word here).
DEF_ == "def"

options == {MOD, DEF_}

\* How main() ended: "success" after the last statement, "exit" after
\* exit(1), "raised" with an exception.
DriverEnd(st, e, h, executed, parse_st, parsed) ==
  [st |-> st, err |-> e, heap |-> h, executed |-> executed,
   parse_st |-> parse_st, parsed |-> parsed]

\* btor2 = parser.parseSeq() or parser.parseDeferred(): both methods end
\* without a return statement, so the call evaluates to None.
call_value(c) == [none |-> TRUE, p |-> <<>>]

\* p.run(btor2): on None the first statement of each pass iterates over it
\* or takes its length.
run_value(id, h, btor2) ==
  IF btor2.none THEN PassRaised("TypeError", h) ELSE run(id, h, btor2.p)

\* pipeline = [p for p in all_passes if p.id in pass_names]
pipeline_of(pass_names) ==
  SelectSeq(all_passes, LAMBDA id : \E i \in 1..Len(pass_names) : pass_names[i] = id)

\* for p in pipeline: btor2 = p.run(btor2), from place n of the pipeline;
\* then print("Success").
RECURSIVE run_pipeline(_, _, _, _, _, _)
run_pipeline(h, btor2, pipeline, n, parse_st, parsed) ==
  IF n > Len(pipeline)
  THEN DriverEnd("success", "", h, pipeline, parse_st, parsed)
  ELSE With(run_value(pipeline[n], h, btor2), LAMBDA r :
         IF r.st = "raised"
         THEN DriverEnd("raised", r.err, r.heap, SubSeq(pipeline, 1, n), parse_st, parsed)
         ELSE run_pipeline(r.heap, [none |-> FALSE, p |-> r.p], pipeline, n + 1,
                           parse_st, parsed))

\* main() from the parsed design straight to the pipeline, with neither
\* the assertion on btor2 nor the check of the pass names.
main_pipeline_unchecked(h, btor2, pass_names, parse_st) ==
  run_pipeline(h, btor2, pipeline_of(pass_names), 1, parse_st, h)

\* main() once the parser has returned: the assertion that btor2 is not
\* None, the check of every pass name against the registry, the pipeline.
main_pipeline(h, btor2, pass_names, parse_st) ==
  IF btor2.none THEN DriverEnd("raised", "AssertionError", h, <<>>, parse_st, h)
  ELSE IF \E i \in 1..Len(pass_names) : find_pass(all_passes, pass_names[i]) = "None"
  THEN DriverEnd("exit", "InvalidPass", h, <<>>, parse_st, h)
  ELSE run_pipeline(h, btor2, pipeline_of(pass_names), 1, parse_st, h)

\* main() with sys.argv = [prog, --option, file, names...] (the option left
\* out when it is the empty string) and btor2str the lines of the file.
main(h, option, btor2str, pass_names) ==
  IF (IF option = "" THEN 2 ELSE 3) + Len(pass_names) < 3
  THEN DriverEnd("exit", "Usage", h, <<>>, "idle", h)
  ELSE IF option # "" /\ option \notin options
  THEN DriverEnd("exit", "InvalidOption", h, <<>>, "idle", h)
  ELSE With(IF option = DEF_ THEN parseDeferred(Parser(btor2str), h)
            ELSE parseSeq(Parser(btor2str), h), LAMBDA c :
         IF c.st = "raised"
         THEN DriverEnd("raised", c.err, c.heap, <<>>, "raised", c.heap)
         ELSE main_pipeline(c.heap, call_value(c), pass_names, "returned"))
----------------------------------------------------------------------------
(* program.py: Program.  The constructor reads only the names of its       *)
(* modules and contracts, so a module or a contract is its name.           *)

\* len([x for x in xs if x.name == name])
count_named(xs, name) == Cardinality({i \in 1..Len(xs) : xs[i] = name})

\* The constructor without its last loop, the one over the contracts.
Program_modules_only(modules, contracts) ==
  IF ~(Len(modules) >= Len(contracts)) THEN Raise("FewerModulesThanContracts")
  ELSE IF \E i \in 1..Len(modules) : ~(count_named(contracts, modules[i]) <= 1)
  THEN Raise("MoreThanOneContract")
  ELSE Ok([modules |-> modules, contracts |-> contracts])

\* Program.__init__(modules, contracts): three assertions, in this order.
Program(modules, contracts) ==
  IF ~(Len(modules) >= Len(contracts)) THEN Raise("FewerModulesThanContracts")
  ELSE IF \E i \in 1..Len(modules) : ~(count_named(contracts, modules[i]) <= 1)
  THEN Raise("MoreThanOneContract")
  ELSE IF \E i \in 1..Len(contracts) : ~(count_named(modules, contracts[i]) = 1)
  THEN Raise("NotOneModule")
  ELSE Ok([modules |-> modules, contracts |-> contracts])

----------------------------------------------------------------------------
(* btormiter.py: merge.  A call leaves behind the heap and either the list *)
(* it returns, with p1 as the call left it, or the exception.              *)

MergeOk(h, p, p1) == [st |-> "ok", err |-> "", heap |-> h, p |-> p, p1 |-> p1]

MergeRaised(e, h, p1) == [st |-> "raised", err |-> e, heap |-> h, p |-> <<>>, p1 |-> p1]

\* Output(lid, out): the constructor with the two arguments it takes.
Output_init(lid, out) == Ok(Instruction(lid, "output", <<out>>))

\* xs[i] for a Python list xs: places count from 0, a negative i counts
\* from the end.
index(xs, i) ==
  IF 0 <= i /\ i < Len(xs) THEN Ok(xs[i + 1])
  ELSE IF i < 0 /\ 0 - i <= Len(xs) THEN Ok(xs[Len(xs) + i + 1])
  ELSE Raise("IndexError")

\* Sort(base_lid, 1): Sort.__init__ takes (lid, typ, width), the call gives
\* it two of the three.
Sort_lid_typ(lid, typ) == Raise("TypeError")

\* Neq(lid, [sort, op1, op2]): Neq.__init__ takes (lid, sort, op1, op2), the
\* call gives it a lid and one list.
Neq_lid_list(lid, ops) == Raise("TypeError")

\* create_lec_assertion(out1, out2, base_lid): the list [sort, neq, bad]
\* and the heap that holds the three.
create_lec_assertion(h, out1, out2, base_lid) ==
  Bind(index(h[out1].operands, 0), LAMBDA op1 :
  Bind(index(h[out2].operands, 0), LAMBDA op2 :
  Bind(Sort_lid_typ(base_lid, 1), LAMBDA sort :
  Bind(Neq_lid_list(base_lid + 1, <<Ref(Len(h) + 1), op1, op2>>), LAMBDA neq :
  Bind(CondOp("bad", base_lid + 2, Ref(Len(h) + 2)), LAMBDA bad :
    Ok([heap |-> h \o <<sort, neq, bad>>,
        lec |-> <<Len(h) + 1, Len(h) + 2, Len(h) + 3>>]))))))

\* The loop of merge over p2 from place n on: an instruction that is no
\* Input is moved to cur_lid and appended to new_p2.  The inner loop over
\* op.operands assigns only to its own loop variable oper, so it changes
\* neither an operand list nor an object.
RECURSIVE new_p2_loop(_, _, _, _, _)
new_p2_loop(h, p2, n, cur_lid, new_p2) ==
  IF n > Len(p2) THEN [heap |-> h, new_p2 |-> new_p2]
  ELSE IF h[p2[n]].cls # "input"
  THEN new_p2_loop([h EXCEPT ![p2[n]].lid = cur_lid], p2, n + 1, cur_lid + 1,
                   Append(new_p2, p2[n]))
  ELSE new_p2_loop(h, p2, n + 1, cur_lid, new_p2)

\* merge(p1, p2)
merge(h, p1, p2) ==
  With(index(p1, Len(p1) - 1), LAMBDA out1 :
    IF out1.st = "raise" THEN MergeRaised(out1.err, h, p1)
    ELSE With(new_p2_loop(h, p2, 1, Len(p1), <<>>), LAMBDA m :
         With(index(p2, Len(m.new_p2) - 1), LAMBDA out2 :
           IF out2.st = "raise" THEN MergeRaised(out2.err, m.heap, p1)
           ELSE With(index(m.new_p2, Len(m.new_p2) - 1), LAMBDA last :
             IF last.st = "raise" THEN MergeRaised(last.err, m.heap, p1)
             ELSE With(create_lec_assertion(m.heap, out1.val, out2.val,
                                            m.heap[last.val].lid), LAMBDA lec :
               IF lec.st = "raise" THEN MergeRaised(lec.err, m.heap, p1)
               ELSE MergeOk(lec.val.heap,
                            SubSeq(p1, 1, Len(p1) - 1)
                              \o SubSeq(m.new_p2, 1, Len(m.new_p2) - 1)
                              \o lec.val.lec,
                            SubSeq(p1, 1, Len(p1) - 1)))))))

\* A design that ends in an output of its last instruction when out is
\* true: the list p with Output(lid, p[-1]) appended.
with_output(h, p, out) ==
  IF out /\ Len(p) > 0
  THEN [heap |-> Append(h, Output_init(h[p[Len(p)]].lid + 1, Ref(p[Len(p)])).val),
        p |-> Append(p, Len(h) + 1)]
  ELSE [heap |-> h, p |-> p]

----------------------------------------------------------------------------
(* modparser.py: the ModParser class.  A line of a file is a sequence of   *)
(* symbols in which " " and "\n" occur as symbols of their own.  A module  *)
(* or a contract is the record [cls, name, body], its body a list of       *)
(* addresses.  A ModParser object is the record [p_str, modules,           *)
(* contracts].                                                             *)

\* s.split(" ")
RECURSIVE split(_)
split(s) ==
  IF \A k \in 1..Len(s) : s[k] # " " THEN <<s>>
  ELSE With(Min({k \in 1..Len(s) : s[k] = " "}), LAMBDA k :
         <<SubSeq(s, 1, k - 1)>> \o split(SubSeq(s, k + 1, Len(s))))

\* s.isnumeric()
isnumeric(s) == IntOk(s, 10)

\* Prec(lid, cond)
Prec(lid, cond) == Instruction(lid, "prec", <<cond>>)

\* Post(lid, cond)
Post(lid, cond) == Instruction(lid, "post", <<cond>>)

\* Instance(lid, name)
Instance(lid, name) == [Instruction(lid, "inst", <<>>) EXCEPT !.name = name]

\* Set(lid, instance, ref, alias)
Set(lid, instance, ref, alias) == Instruction(lid, "set", <<instance, ref, alias>>)

\* x.name: the classes whose constructor sets it.
attr_name(x) ==
  IF x.cls \in {"input", "state", "inst", ":"} THEN Ok(x.name)
  ELSE Raise("AttributeError")

\* Module(name, body)
Module(name, body) == [cls |-> "Module", name |-> name, body |-> body]

\* Contract(name, body): asserts that the body has a Prec or a Post.
Contract(h, name, body) ==
  IF \E k \in 1..Len(body) : h[body[k]].cls \in {"prec", "post"}
  THEN Ok([cls |-> "Contract", name |-> name, body |-> body])
  ELSE Raise("ContractWithoutCondition")

\* [m.name for m in ms]
names(ms) == [k \in 1..Len(ms) |-> ms[k].name]

\* ModParser.__init__(p_str)
ModParser(p_str) == [p_str |-> p_str, modules |-> <<>>, contracts |-> <<>>]

\* A check that takes every name for the name of a module.
check_name_any(self, name) == TRUE

\* ModParser.check_name(name)
check_name(self, name) == \E k \in 1..Len(self.modules) : self.modules[k].name = name

\* ModParser.get_module(name)
get_module(self, name) ==
  With({k \in 1..Len(self.modules) : self.modules[k].name = name}, LAMBDA ks :
    IF ks = {} THEN Raise("IndexError") ELSE Ok(self.modules[Min(ks)]))

\* A scan that takes every line up to the "}" line, an instruction or not.
RECURSIVE scan_loop_unchecked(_, _, _)
scan_loop_unchecked(self, i, res) ==
  IF ~(i < Len(self.p_str)) THEN Raise("IndexError")
  ELSE With(strip(self.p_str[i + 1]), LAMBDA s :
         IF s = <<"}">> THEN Ok([body |-> res, i |-> i])
         ELSE scan_loop_unchecked(self, i + 1, Append(res, s)))

\* The loop of scan_body from line i on (lines count from 0): res is the
\* list built so far.  Line i is read before anything is known of i.
RECURSIVE scan_loop(_, _, _)
scan_loop(self, i, res) ==
  IF ~(i < Len(self.p_str)) THEN Raise("IndexError")
  ELSE With(strip(self.p_str[i + 1]), LAMBDA s :
         IF s = <<"}">> THEN Ok([body |-> res, i |-> i])
         ELSE IF ~isnumeric(split(s)[1]) THEN Raise("NotAnInstruction")
         ELSE scan_loop(self, i + 1, Append(res, s)))

\* ModParser.scan_body(i): the pair (res, i).
scan_body(self, i) ==
  IF ~(i < Len(self.p_str)) THEN Raise("IndexError")
  ELSE With(split(self.p_str[i + 1]), LAMBDA l :
         IF strip(l[Len(l)]) # <<"{">> THEN Raise("InvalidBodyStart")
         ELSE scan_loop(self, i + 1, <<>>))

\* ModParser.parse_ref(inst): find_inst takes one argument besides self and
\* is given two, so the call raises TypeError once its arguments are
\* evaluated.
parse_ref(self, h, inst) ==
  Bind(index(inst, 1), LAMBDA tag :
    IF tag # <<"ref">> THEN Raise("NotARef")
    ELSE Bind(index(inst, 2), LAMBDA ref_mod :
           IF ~check_name(self, ref_mod) THEN Raise("UndefinedModule")
           ELSE Bind(get_module(self, ref_mod), LAMBDA module :
                Bind(index(inst, 3), LAMBDA tok :
                Bind(int(tok, 10), LAMBDA id : Raise("TypeError"))))))

\* bodyParser.find_inst(int(inst[k]))
find_field(h, p, inst, k) ==
  Bind(index(inst, k), LAMBDA tok :
  Bind(int(tok, 10), LAMBDA id : find_inst(h, p, id)))

\* What parsing a body leaves behind: the heap and bodyParser.p, or the
\* exception.
BodyOk(h, p) == [st |-> "ok", err |-> "", heap |-> h, p |-> p]

BodyRaised(e) == [st |-> "raised", err |-> e, heap |-> <<>>, p |-> <<>>]

\* The body with the object x appended to bodyParser.p, or the exception
\* that building x raised.
appended(h, p, x) ==
  IF x.st = "raise" THEN BodyRaised(x.err)
  ELSE BodyOk(Append(h, x.val), Append(p, Len(h) + 1))

\* case "set"
parse_set(h, p, inst, lid) ==
  Bind(find_field(h, p, inst, 2), LAMBDA instance :
  Bind(find_field(h, p, inst, 3), LAMBDA ref :
  Bind(attr_name(h[ref.ref]), LAMBDA ref_name :
  Bind(attr_name(h[instance.ref]), LAMBDA instance_name :
    IF ref_name # instance_name THEN Raise("SetNotInstanceInput")
    ELSE Bind(find_field(h, p, inst, 4), LAMBDA alias :
           Ok(Set(lid, instance, ref, alias)))))))

\* case "inst"
parse_instance(self, inst, lid) ==
  Bind(index(inst, 2), LAMBDA instd_mod :
    IF ~check_name(self, instd_mod) THEN Raise("UndefinedModule")
    ELSE Ok(Instance(lid, instd_mod)))

\* case _: bodyParser.parse_inst(line), with its default deferred=True;
\* what it returns is dropped.
parse_standard(h, p, inst) ==
  With(parse_inst(h, p, inst, TRUE), LAMBDA r :
    IF r.st = "raise" THEN BodyRaised(r.err) ELSE BodyOk(h, p))

\* One line of a module body: the match on its tag.
module_line(self, h, p, inst) ==
  With(int(inst[1], 10), LAMBDA lid :
  With(index(inst, 1), LAMBDA tag :
    CASE lid.st = "raise" -> BodyRaised(lid.err)
      [] lid.st # "raise" /\ tag.st = "raise" -> BodyRaised(tag.err)
      [] lid.st # "raise" /\ tag.st # "raise" /\ tag.val = <<"inst">> ->
           appended(h, p, parse_instance(self, inst, lid.val))
      [] lid.st # "raise" /\ tag.st # "raise" /\ tag.val = <<"ref">> ->
           appended(h, p, parse_ref(self, h, inst))
      [] lid.st # "raise" /\ tag.st # "raise" /\ tag.val = <<"set">> ->
           appended(h, p, parse_set(h, p, inst, lid.val))
      [] OTHER -> parse_standard(h, p, inst)))

\* case "prec" and case "post"
parse_condition(h, p, inst, lid, tag) ==
  Bind(find_field(h, p, inst, 2), LAMBDA cond :
    Ok(IF tag = "prec" THEN Prec(lid, cond) ELSE Post(lid, cond)))

\* One line of a contract body: the match on its tag.
contract_line(self, h, p, inst) ==
  With(int(inst[1], 10), LAMBDA lid :
  With(index(inst, 1), LAMBDA tag :
    CASE lid.st = "raise" -> BodyRaised(lid.err)
      [] lid.st # "raise" /\ tag.st = "raise" -> BodyRaised(tag.err)
      [] lid.st # "raise" /\ tag.st # "raise" /\ tag.val = <<"prec">> ->
           appended(h, p, parse_condition(h, p, inst, lid.val, "prec"))
      [] lid.st # "raise" /\ tag.st # "raise" /\ tag.val = <<"post">> ->
           appended(h, p, parse_condition(h, p, inst, lid.val, "post"))
      [] lid.st # "raise" /\ tag.st # "raise" /\ tag.val = <<"ref">> ->
           appended(h, p, parse_ref(self, h, inst))
      [] OTHER -> parse_standard(h, p, inst)))

\* The loop of parse_module_body from line k of the body on.
RECURSIVE module_body_from(_, _, _, _, _)
module_body_from(self, h, body, k, p) ==
  IF k > Len(body) THEN BodyOk(h, p)
  ELSE IF split(body[k])[1] = <<";">> THEN module_body_from(self, h, body, k + 1, p)
  ELSE With(module_line(self, h, p, split(body[k])), LAMBDA r :
         IF r.st = "raised" THEN r
         ELSE module_body_from(self, r.heap, body, k + 1, r.p))

\* ModParser.parse_module_body(body)
parse_module_body(self, h, body) == module_body_from(self, h, body, 1, <<>>)

\* The loop of parse_contract_body from line k of the body on.
RECURSIVE contract_body_from(_, _, _, _, _)
contract_body_from(self, h, body, k, p) ==
  IF k > Len(body) THEN BodyOk(h, p)
  ELSE IF split(body[k])[1] = <<";">> THEN contract_body_from(self, h, body, k + 1, p)
  ELSE With(contract_line(self, h, p, split(body[k])), LAMBDA r :
         IF r.st = "raised" THEN r
         ELSE contract_body_from(self, r.heap, body, k + 1, r.p))

\* ModParser.parse_contract_body(body)
parse_contract_body(self, h, body) == contract_body_from(self, h, body, 1, <<>>)

\* What parse_file leaves behind: the ModParser object, the heap, how the
\* call ended (it returned, it raised, or it called exit), the line it was
\* at, and the values i had each time the loop test was passed.
FileEnd(self, h, st, e, i, trail) ==
  [self |-> self, heap |-> h, st |-> st, err |-> e, i |-> i, trail |-> trail]

\* case "module": self, the heap and i after the block, or the exception.
module_block(self, h, i, symbols) ==
  Bind(index(symbols, 1), LAMBDA name :
  Bind(scan_body(self, i), LAMBDA sb :
    With(parse_module_body(self, h, sb.body), LAMBDA b :
      IF b.st = "raised" THEN Raise(b.err)
      ELSE Ok([self |-> [self EXCEPT !.modules = Append(@, Module(name, b.p))],
               heap |-> b.heap, i |-> sb.i]))))

\* case "contract"
contract_block(self, h, i, symbols) ==
  Bind(index(symbols, 1), LAMBDA name :
    IF ~check_name(self, name) THEN Raise("UndefinedContractName")
    ELSE Bind(scan_body(self, i), LAMBDA sb :
           With(parse_contract_body(self, h, sb.body), LAMBDA b :
             IF b.st = "raised" THEN Raise(b.err)
             ELSE Bind(Contract(b.heap, name, b.p), LAMBDA c :
                    Ok([self |-> [self EXCEPT !.contracts = Append(@, c)],
                        heap |-> b.heap, i |-> sb.i])))))

\* The loop of parse_file from line i on (lines count from 0), and the
\* Program built at its end.
RECURSIVE parse_file_from(_, _, _, _)
parse_file_from(self, h, i, trail) ==
  IF ~(i < Len(self.p_str))
  THEN With(Program(names(self.modules), names(self.contracts)), LAMBDA r :
         IF r.st = "raise" THEN FileEnd(self, h, "raised", r.err, i, trail)
         ELSE FileEnd(self, h, "returned", "", i, trail))
  ELSE With(split(strip(self.p_str[i + 1]))[1], LAMBDA tag :
         CASE tag \in {<<"module">>, <<"contract">>} ->
                With(IF tag = <<"module">>
                     THEN module_block(self, h, i, split(strip(self.p_str[i + 1])))
                     ELSE contract_block(self, h, i, split(strip(self.p_str[i + 1]))),
                     LAMBDA r :
                  IF r.st = "raise"
                  THEN FileEnd(self, h, "raised", r.err, i, Append(trail, i))
                  ELSE parse_file_from(r.val.self, r.val.heap, r.val.i, Append(trail, i)))
           [] tag = <<"}">> -> parse_file_from(self, h, i + 1, Append(trail, i))
           [] OTHER -> FileEnd(self, h, "exited", "SystemExit", i, Append(trail, i)))

\* ModParser.parse_file()
ModParser_parse_file(self, h) == parse_file_from(self, h, 0, <<>>)

\* parse_file(file)
parse_file(file, h) == ModParser_parse_file(ModParser(file), h)

----------------------------------------------------------------------------
(* Passes on a Program.  A Program object is the record [modules,          *)
(* contracts]; None in a list of modules is the record NoneModule.  The    *)
(* body of a module is here a list of entries, since a pass may put a list *)
(* where an instruction was: an entry is an instruction (its address) or a *)
(* list.  A call leaves behind the Program it returns or the exception,    *)
(* and p.modules as the call left it.                                      *)

NoneModule == [cls |-> "NoneType", name |-> <<>>, body |-> <<>>]

\* An instruction as an element of a body.
InstEntry(a) == [k |-> "inst", ref |-> a, items |-> <<>>]

\* A list as an element of a body.
ListEntry(items) == [k |-> "list", ref |-> 0, items |-> items]

ProgOk(result, modules) ==
  [st |-> "ok", err |-> "", result |-> result, after |-> modules]

ProgRaised(e, modules) ==
  [st |-> "raised", err |-> e, result |-> [modules |-> <<>>, contracts |-> <<>>],
   after |-> modules]

\* Program.get_module(name): x.name is read for every x of the list.
Program_get_module(p, name) ==
  IF \E k \in 1..Len(p.modules) : p.modules[k].cls = "NoneType"
  THEN Raise("AttributeError")
  ELSE With({k \in 1..Len(p.modules) : p.modules[k].name = name}, LAMBDA ks :
         IF ks = {} THEN Raise("UndefinedName") ELSE Ok(p.modules[Min(ks)]))

\* Program.get_contract(name): the first contract of that name, or None.
get_contract(p, name) ==
  With({k \in 1..Len(p.contracts) : p.contracts[k].name = name}, LAMBDA ks :
    IF ks = {} THEN NoneModule ELSE p.contracts[Min(ks)])

\* Program.get_module_contract(module)
get_module_contract(p, module) == get_contract(p, module.name)

\* Pass.runOnProgram(p): pool.map pickles the function it is given, a
\* lambda defined inside runOnProgram, as soon as there is a module to
\* send to a worker; that fails with AttributeError (Can't pickle local
\* object) before any worker has run the transform.  On an empty list
\* nothing is sent.
Pass_runOnProgram(id, h, p) ==
  IF Len(p.modules) = 0 THEN ProgOk([p EXCEPT !.modules = <<>>], <<>>)
  ELSE ProgRaised("AttributeError", p.modules)

\* ApplyContracts.replaceInst(m, i, p): with a contract for m the empty
\* list; without one, Program has no method get_instance_sets.
replaceInst(h, p, m, i) ==
  IF get_module_contract(p, m).cls = "NoneType"
  THEN Bind(Program_get_module(p, h[i].name), LAMBDA inline_m :
         Raise("AttributeError"))
  ELSE Ok(<<>>)

\* ApplyContracts.wrapModuleWithContract(m, c)
wrapModuleWithContract(m, c) == NoneModule

\* The loop over m.body from element n on: res is res_m_body.  What
\* replaceInst returns is appended as one element.
RECURSIVE new_body(_, _, _, _, _)
new_body(h, p, m, n, res) ==
  IF n > Len(m.body) THEN Ok(res)
  ELSE IF m.body[n].k = "inst" /\ h[m.body[n].ref].cls = "inst"
  THEN Bind(replaceInst(h, p, m, m.body[n].ref), LAMBDA inst_ :
         new_body(h, p, m, n + 1, Append(res, ListEntry(inst_))))
  ELSE new_body(h, p, m, n + 1, Append(res, m.body[n]))

\* The loop of ApplyContracts.runOnProgram from module i on (modules count
\* from 1 here), and the Program built at its end.
RECURSIVE apply_from(_, _, _)
apply_from(h, p, i) ==
  IF i > Len(p.modules)
  THEN With(Program(names(p.modules), <<>>), LAMBDA r :
         IF r.st = "raise" THEN ProgRaised(r.err, p.modules)
         ELSE ProgOk([modules |-> p.modules, contracts |-> <<>>], p.modules))
  ELSE With(new_body(h, p, p.modules[i], 1, <<>>), LAMBDA b :
         IF b.st = "raise" THEN ProgRaised(b.err, p.modules)
         ELSE apply_from(h,
                [p EXCEPT !.modules[i] =
                   IF get_module_contract(p, p.modules[i]).cls = "NoneType"
                   THEN Module(p.modules[i].name, b.val)
                   ELSE wrapModuleWithContract(p.modules[i],
                                               get_module_contract(p, p.modules[i]))],
                i + 1))

\* ApplyContracts.runOnProgram(p)
ApplyContracts_runOnProgram(h, p) == apply_from(h, p, 1)

----------------------------------------------------------------------------
(* The line sequences the parser is run on. *)

Line1 == << <<"1">>, <<"sort">>, <<"bitvector">>, <<"1">> >>

Line2 == << <<"2">>, <<"input">>, <<"1">>, <<"a">> >>

Line2u == << <<"2">>, <<"input">>, <<"1">> >>

Line3const == << <<"3">>, <<"const">>, <<"1">>, <<"1", "0">> >>

Line3constd == << <<"3">>, <<"constd">>, <<"1">>, <<"1", "0">> >>

Line3consth == << <<"3">>, <<"consth">>, <<"1">>, <<"1", "0">> >>

Line3consthf == << <<"3">>, <<"consth">>, <<"1">>, <<"1", "f">> >>

Line3or == << <<"3">>, <<"or">>, <<"1">>, <<"2">>, <<"2">> >>

Line3bad == << <<"3">>, <<"bad">>, <<"2">> >>

Line3slice == << <<"3">>, <<"slice">>, <<"1">>, <<"2">>, <<"2">>, <<"0">> >>

Line3output == << <<"3">>, <<"output">>, <<"2">> >>

Line3srem == << <<"3">>, <<"srem">>, <<"1">>, <<"2">>, <<"2">> >>

Line3urem == << <<"3">>, <<"urem">>, <<"1">>, <<"2">>, <<"2">> >>

Line3input == << <<"3">>, <<"input">>, <<"2">>, <<"b">> >>

Line10 == << <<"1", "0">>, <<"sort">>, <<"bitvector">>, <<"8">> >>

Line2w == << <<"2">>, <<"input">>, <<"1", "0">>, <<"a">> >>

Line3state == << <<"3">>, <<"state">>, <<"1">>, <<"s">> >>

Line3zero == << <<"3">>, <<"zero">>, <<"1">> >>

Line3not == << <<"3">>, <<"not">>, <<"1">>, <<"2">> >>

Line3ite == << <<"3">>, <<"ite">>, <<"1">>, <<"2">>, <<"2">>, <<"2">> >>

Line3uext == << <<"3">>, <<"uext">>, <<"1">>, <<"2">>, <<"0">>, <<"e">> >>

LineComment == << <<";">>, <<"c">> >>

Line4state == << <<"4">>, <<"state">>, <<"1">>, <<"s">> >>

Line4statet == << <<"4">>, <<"state">>, <<"1">>, <<"t">> >>

Line5zero == << <<"5">>, <<"zero">>, <<"1">> >>

Line6init == << <<"6">>, <<"init">>, <<"1">>, <<"3">>, <<"5">> >>

Lines ==
  {Line1, Line2, Line2u, Line3const, Line3constd, Line3consth, Line3consthf,
   Line3or, Line3bad, Line3slice, Line3output, Line3srem, Line3urem,
   Line3input, Line10, Line2w, Line3state, Line3zero, Line3not, Line3ite,
   Line3uext, LineComment}

\* All sequences of at most n lines.
SeqsUpTo(n) == UNION {[1..k -> Lines] : k \in 0..n}

\* The lines of the designs the passes are run on: inputs, states with
\* and without an init, two states of one name, and a uext.
PassLines ==
  {Line1, Line2, Line3state, Line4state, Line4statet, Line5zero, Line6init,
   Line3uext}

PassSeqsUpTo(n) == UNION {[1..k -> PassLines] : k \in 0..n}

----------------------------------------------------------------------------
(* The state machine: a line sequence s, the two calls of tests/test.py,   *)
(* seq_p = parse(s) and par_p = parse(s, deferred=True), and the text      *)
(* serialize_p gives for a sequence one of them returned.                  *)

VARIABLES
  lines,   \* the line sequence s handed to parse
  heap,    \* the Instruction objects created so far
  seq_p,   \* the call parse(s): not made yet, returned, or raised
  par_p,   \* the call parse(s, deferred=True)
  text,    \* the call serialize_p(p) on a returned sequence
  pipe,    \* the passes run, one after the other, on the sequence parsed
  driver,  \* the call main() of the command line driver
  prgm,    \* the call Program(modules, contracts)
  miter,   \* the call merge(p1, p2)
  lc,      \* one Parser object and the calls made on it
  modp,    \* the call parse_file(file) of the module parser
  onprog   \* a Program and the call of a pass on it

vars == <<lines, heap, seq_p, par_p, text, pipe, driver, prgm, miter, lc, modp, onprog>>

Idle == [st |-> "idle", err |-> "", line |-> 0, self |-> Parser(<<>>)]

NoText == [st |-> "idle", of |-> "", s |-> <<>>]

\* No pass has run: ran lists the ids of the passes run so far, p is the
\* list the last one returned, arg and pre are the list it was given and
\* the heap it started from.
NoPipe ==
  [st |-> "idle", err |-> "", p |-> <<>>, ran |-> <<>>, arg |-> <<>>, pre |-> <<>>]

\* Program(modules, contracts) has not been called: mods and ctrs are the
\* arguments (a module and a contract are given by their names), self the
\* object built.
NoProgram ==
  [st |-> "idle", err |-> "", mods |-> <<>>, ctrs |-> <<>>,
   self |-> [modules |-> <<>>, contracts |-> <<>>]]

\* merge(p1, p2) has not been called: p1 and p2 are the arguments, pre the
\* objects as they were at the call, p the list returned.
NoMerge ==
  [st |-> "idle", err |-> "", p1 |-> <<>>, p2 |-> <<>>, pre |-> <<>>, p |-> <<>>,
   p1_after |-> <<>>]

\* A Parser object just constructed on p_str: calls counts the calls made
\* on it, last names the last one, st and err tell how it ended, and
\* before is the object as the last call found it.
Fresh(p_str) ==
  [self |-> Parser(p_str), calls |-> 0, last |-> "", st |-> "idle", err |-> "",
   before |-> Parser(p_str)]

\* parse_file(file) has not been called: modules and contracts are those
\* of the ModParser object, a module or contract being [name, body].
NoFile ==
  [op |-> "", st |-> "idle", err |-> "", at |-> 0, body |-> <<>>, i |-> 0,
   trail |-> <<>>, modules |-> <<>>, contracts |-> <<>>]

NoProgramRun ==
  [st |-> "idle", err |-> "", id |-> "", p |-> [modules |-> <<>>, contracts |-> <<>>],
   result |-> [modules |-> <<>>, contracts |-> <<>>], after |-> <<>>]

\* main() has not been called.
NoRun ==
  [st |-> "idle", err |-> "", option |-> "", names |-> <<>>, executed |-> <<>>,
   parse_st |-> "idle", parsed |-> <<>>]

Init ==
  /\ lines \in SeqsUpTo(MaxLines)
  /\ heap = <<>>
  /\ seq_p = Idle
  /\ par_p = Idle
  /\ text = NoText
  /\ pipe = NoPipe
  /\ driver = NoRun
  /\ prgm = NoProgram
  /\ miter = NoMerge
  /\ lc = Fresh(<<>>)
  /\ modp = NoFile
  /\ onprog = NoProgramRun

\* seq_p = parse(s)
ParseSeq ==
  /\ seq_p.st = "idle"
  /\ \E r \in {parse(heap, lines, FALSE)} :
     /\ seq_p' = [st |-> r.st, err |-> r.err, line |-> r.line, self |-> r.self]
     /\ heap' = r.heap
  /\ UNCHANGED <<lines, par_p, text, pipe, driver, prgm, miter, lc, modp, onprog>>

\* par_p = parse(s, deferred=True)
ParseDeferred ==
  /\ par_p.st = "idle"
  /\ \E r \in {parse(heap, lines, TRUE)} :
     /\ par_p' = [st |-> r.st, err |-> r.err, line |-> r.line, self |-> r.self]
     /\ heap' = r.heap
  /\ UNCHANGED <<lines, seq_p, text, pipe, driver, prgm, miter, lc, modp, onprog>>

\* serialize_p(c.self.p) for a call c that returned.
SerializeOf(c, of) ==
  /\ text.st = "idle"
  /\ c.st = "returned"
  /\ \E r \in {serialize_p(heap, c.self.p)} :
     text' = [st |-> IF r.st = "ok" THEN "returned" ELSE "raised", of |-> of,
              s |-> IF r.st = "ok" THEN r.val ELSE <<>>]
  /\ UNCHANGED <<lines, heap, seq_p, par_p, pipe, driver, prgm, miter, lc, modp, onprog>>

SerializeSeq == SerializeOf(seq_p, "seq_p")

SerializePar == SerializeOf(par_p, "par_p")

Next == ParseSeq \/ ParseDeferred \/ SerializeSeq \/ SerializePar

Spec == Init /\ [][Next]_vars

----------------------------------------------------------------------------
(* The passes: a design is parsed and passes are run on the result, each   *)
(* on the list the one before it returned.                                 *)

\* Longest design handed to the passes, and most passes run on one.
MaxPassLines == 5

MaxPasses == 2

PassInit ==
  /\ lines \in PassSeqsUpTo(MaxPassLines)
  /\ heap = <<>>
  /\ seq_p = Idle
  /\ par_p = Idle
  /\ text = NoText
  /\ pipe = NoPipe
  /\ driver = NoRun
  /\ prgm = NoProgram
  /\ miter = NoMerge
  /\ lc = Fresh(<<>>)
  /\ modp = NoFile
  /\ onprog = NoProgramRun

\* btor2 = p.run(btor2) for the pass p with that id.
RunPass(id) ==
  /\ seq_p.st = "returned"
  /\ pipe.st \in {"idle", "ok"}
  /\ Len(pipe.ran) < MaxPasses
  /\ \E btor2 \in {IF pipe.st = "idle" THEN seq_p.self.p ELSE pipe.p} :
     \E r \in {run(id, heap, btor2)} :
       /\ pipe' = [st |-> r.st, err |-> r.err, p |-> r.p,
                   ran |-> Append(pipe.ran, id), arg |-> btor2, pre |-> heap]
       /\ heap' = r.heap
  /\ UNCHANGED <<lines, seq_p, par_p, text, driver, prgm, miter, lc, modp, onprog>>

RenameInputsRun == RunPass("rename-inputs")

InitAllStatesRun == RunPass("init-all-states")

CheckLidOrderingRun == RunPass("check-lid-ordering")

PassNext == ParseSeq \/ RenameInputsRun \/ InitAllStatesRun \/ CheckLidOrderingRun

PassSpec == PassInit /\ [][PassNext]_vars

----------------------------------------------------------------------------
(* The driver: main() is called once on a design file, with an option and  *)
(* a list of pass names.                                                   *)

\* Longest design file and longest list of pass names given to main().
MaxDriverLines == 2

MaxNames == 3

\* The option on the command line: none, the two of options, another one.
Options == {"", DEF_, MOD, "fast"}

\* The names on the command line: the registered ids and one that is not.
Names == {"rename-inputs", "init-all-states", "check-lid-ordering", "no-such-pass"}

NamesUpTo(n) == UNION {[1..k -> Names] : k \in 0..n}

DriverInit ==
  /\ lines \in PassSeqsUpTo(MaxDriverLines)
  /\ heap = <<>>
  /\ seq_p = Idle
  /\ par_p = Idle
  /\ text = NoText
  /\ pipe = NoPipe
  /\ driver = NoRun
  /\ prgm = NoProgram
  /\ miter = NoMerge
  /\ lc = Fresh(<<>>)
  /\ modp = NoFile
  /\ onprog = NoProgramRun

\* main()
Main ==
  /\ driver.st = "idle"
  /\ \E option \in Options : \E pass_names \in NamesUpTo(MaxNames) :
     \E r \in {main(heap, option, lines, pass_names)} :
       /\ driver' = [st |-> r.st, err |-> r.err, option |-> option,
                     names |-> pass_names, executed |-> r.executed,
                     parse_st |-> r.parse_st, parsed |-> r.parsed]
       /\ heap' = r.heap
  /\ UNCHANGED <<lines, seq_p, par_p, text, pipe, prgm, miter, lc, modp, onprog>>

DriverNext == Main

DriverSpec == DriverInit /\ [][DriverNext]_vars

----------------------------------------------------------------------------
(* Program: the constructor is called once on a list of modules and a list *)
(* of contracts.                                                           *)

\* Longest list of modules and longest list of contracts.
MaxModules == 3

\* The names modules and contracts carry.
ModuleNames == {"A", "B"}

NameListsUpTo(n) == UNION {[1..k -> ModuleNames] : k \in 0..n}

ProgramInit ==
  /\ lines = <<>>
  /\ heap = <<>>
  /\ seq_p = Idle
  /\ par_p = Idle
  /\ text = NoText
  /\ pipe = NoPipe
  /\ driver = NoRun
  /\ prgm = NoProgram
  /\ miter = NoMerge
  /\ lc = Fresh(<<>>)
  /\ modp = NoFile
  /\ onprog = NoProgramRun

\* Program(modules, contracts)
NewProgram ==
  /\ prgm.st = "idle"
  /\ \E modules \in NameListsUpTo(MaxModules) :
     \E contracts \in NameListsUpTo(MaxModules) :
     \E r \in {Program(modules, contracts)} :
       prgm' = [st |-> r.st, err |-> r.err, mods |-> modules, ctrs |-> contracts,
                self |-> IF r.st = "ok" THEN r.val ELSE NoProgram.self]
  /\ UNCHANGED <<lines, heap, seq_p, par_p, text, pipe, driver, miter, lc, modp, onprog>>

ProgramNext == NewProgram

ProgramSpec == ProgramInit /\ [][ProgramNext]_vars

----------------------------------------------------------------------------
(* The miter: a first design is parsed, a second one is parsed, each may   *)
(* be given an output of its last instruction, and the two are merged.     *)

\* Longest text of a design handed to merge.
MaxMiterLines == 3

MiterLines == {Line1, Line2, Line3not, Line3bad, Line10}

MiterSeqsUpTo(n) == UNION {[1..k -> MiterLines] : k \in 0..n}

MiterInit ==
  /\ lines \in MiterSeqsUpTo(MaxMiterLines)
  /\ heap = <<>>
  /\ seq_p = Idle
  /\ par_p = Idle
  /\ text = NoText
  /\ pipe = NoPipe
  /\ driver = NoRun
  /\ prgm = NoProgram
  /\ miter = NoMerge
  /\ lc = Fresh(<<>>)
  /\ modp = NoFile
  /\ onprog = NoProgramRun

\* merge(p1, p2) for p1 the design parsed and p2 a second design.
Merge ==
  /\ seq_p.st = "returned"
  /\ miter.st = "idle"
  /\ \E lines2 \in MiterSeqsUpTo(MaxMiterLines) :
     \E out1 \in BOOLEAN : \E out2 \in BOOLEAN :
     \E c2 \in {parse(heap, lines2, FALSE)} :
       /\ c2.st = "returned"
       /\ \E d1 \in {with_output(c2.heap, seq_p.self.p, out1)} :
          \E d2 \in {with_output(d1.heap, c2.self.p, out2)} :
          \E r \in {merge(d2.heap, d1.p, d2.p)} :
            /\ miter' = [st |-> r.st, err |-> r.err, p1 |-> d1.p, p2 |-> d2.p,
                         pre |-> d2.heap, p |-> r.p, p1_after |-> r.p1]
            /\ heap' = r.heap
  /\ UNCHANGED <<lines, seq_p, par_p, text, pipe, driver, prgm, lc, modp, onprog>>

MiterNext == ParseSeq \/ Merge

MiterSpec == MiterInit /\ [][MiterNext]_vars

----------------------------------------------------------------------------
(* The life of one Parser object: parseSeq, parseDeferred and clear are    *)
(* called on it in any order.                                              *)

\* Longest line sequence of the object and most calls made on it.
MaxLifeLines == 2

MaxCalls == 3

LifeInit ==
  /\ lines \in SeqsUpTo(MaxLifeLines)
  /\ heap = <<>>
  /\ seq_p = Idle
  /\ par_p = Idle
  /\ text = NoText
  /\ pipe = NoPipe
  /\ driver = NoRun
  /\ prgm = NoProgram
  /\ miter = NoMerge
  /\ lc = Fresh(lines)
  /\ modp = NoFile
  /\ onprog = NoProgramRun

\* A call of one of the two parse methods on the object.
CallParse(name, r) ==
  /\ lc.calls < MaxCalls
  /\ lc' = [self |-> r.self, calls |-> lc.calls + 1, last |-> name,
            st |-> r.st, err |-> r.err, before |-> lc.self]
  /\ heap' = r.heap
  /\ UNCHANGED <<lines, seq_p, par_p, text, pipe, driver, prgm, miter, modp, onprog>>

\* parser.parseSeq()
CallParseSeq == CallParse("parseSeq", parseSeq(lc.self, heap))

\* parser.parseDeferred()
CallParseDeferred == CallParse("parseDeferred", parseDeferred(lc.self, heap))

\* parser.clear() or parser.clear(s)
CallClear ==
  /\ lc.calls < MaxCalls
  /\ \E p_str \in {<<>>, lines} :
       lc' = [self |-> clear(lc.self, p_str), calls |-> lc.calls + 1, last |-> "clear",
              st |-> "returned", err |-> "", before |-> lc.self]
  /\ UNCHANGED <<lines, heap, seq_p, par_p, text, pipe, driver, prgm, miter, modp, onprog>>

LifeNext == CallParseSeq \/ CallParseDeferred \/ CallClear

LifeSpec == LifeInit /\ [][LifeNext]_vars

----------------------------------------------------------------------------
(* The module parser: a file of at most MaxFileLines lines is given to     *)
(* parse_file, or scan_body is called on one of its header lines.          *)

MaxFileLines == 5

ModuleA == <<"module", " ", "A", " ", "{", "\n">>

ModuleB == <<"module", " ", "B", " ", "{">>

ModuleBare == <<"module", " ", "B">>

ContractA == <<"contract", " ", "A", " ", "{">>

Close == <<"}">>

InstA == <<"2", " ", "inst", " ", "A">>

RefA == <<"3", " ", "ref", " ", "A", " ", "1">>

\* An indented line of a standard instruction.
SortLine == <<" ">> \o join(<<" ">>, Line1)

\* A comment.
CommentLine == <<";", " ", "c">>

FileLines ==
  {ModuleA, ModuleB, ModuleBare, ContractA, Close, InstA, RefA, SortLine,
   CommentLine}

FilesUpTo(n) == UNION {[1..k -> FileLines] : k \in 0..n}

\* Line i of the file (lines count from 0) opens a block for parse_file.
IsHeader(file, i) ==
  split(strip(file[i + 1]))[1] \in {<<"module">>, <<"contract">>}

ModInit ==
  /\ lines \in FilesUpTo(MaxFileLines)
  /\ heap = <<>>
  /\ seq_p = Idle
  /\ par_p = Idle
  /\ text = NoText
  /\ pipe = NoPipe
  /\ driver = NoRun
  /\ prgm = NoProgram
  /\ miter = NoMerge
  /\ lc = Fresh(<<>>)
  /\ modp = NoFile
  /\ onprog = NoProgramRun

\* p = parse_file(lines)
ParseFile ==
  /\ modp.st = "idle"
  /\ \E r \in {parse_file(lines, heap)} :
       /\ modp' = [op |-> "parse_file", st |-> r.st, err |-> r.err, at |-> 0,
                   body |-> <<>>, i |-> r.i, trail |-> r.trail,
                   modules |-> r.self.modules, contracts |-> r.self.contracts]
       /\ heap' = r.heap
  /\ UNCHANGED <<lines, seq_p, par_p, text, pipe, driver, prgm, miter, lc, onprog>>

\* ModParser(lines).scan_body(i) on a header line i
ScanBody ==
  /\ modp.st = "idle"
  /\ \E i \in 0..(Len(lines) - 1) :
       /\ IsHeader(lines, i)
       /\ \E r \in {scan_body(ModParser(lines), i)} :
            modp' = [op |-> "scan_body", st |-> IF r.st = "raise" THEN "raised" ELSE "returned",
                     err |-> r.err, at |-> i,
                     body |-> IF r.st = "raise" THEN <<>> ELSE r.val.body,
                     i |-> IF r.st = "raise" THEN 0 ELSE r.val.i,
                     trail |-> <<>>, modules |-> <<>>, contracts |-> <<>>]
  /\ UNCHANGED <<lines, heap, seq_p, par_p, text, pipe, driver, prgm, miter, lc, onprog>>

ModNext == ParseFile \/ ScanBody

ModSpec == ModInit /\ [][ModNext]_vars

----------------------------------------------------------------------------
(* Passes on a Program: a Program is built by the constructors from at     *)
(* most MaxProgModules modules and contracts, and runOnProgram of one pass *)
(* is called on it.                                                        *)

MaxProgModules == 2

ProgNames == {<<"A">>, <<"B">>}

\* The objects the bodies are made of: a sort, an Instance of A, an
\* Instance of B, and a Prec on the sort.
ProgHeap ==
  <<Sort(1, "bitvector", 1).val, Instance(2, <<"A">>), Instance(3, <<"B">>),
    Prec(4, Ref(1))>>

\* The bodies of the modules, as lists of addresses and as lists of
\* entries.
Addresses == {<<>>, <<1>>, <<2>>, <<3>>, <<1, 2>>, <<2, 1>>, <<1, 3>>, <<2, 3>>}

Bodies == {[j \in 1..Len(b) |-> InstEntry(b[j])] : b \in Addresses}

Modules == {Module(n, b) : n \in ProgNames, b \in Bodies}

Contracts == {Contract(ProgHeap, n, <<1, 4>>).val : n \in ProgNames}

ListsUpTo(S, n) == UNION {[1..k -> S] : k \in 0..n}

OnProgramInit ==
  /\ lines = <<>>
  /\ heap = ProgHeap
  /\ seq_p = Idle
  /\ par_p = Idle
  /\ text = NoText
  /\ pipe = NoPipe
  /\ driver = NoRun
  /\ prgm = NoProgram
  /\ miter = NoMerge
  /\ lc = Fresh(<<>>)
  /\ modp = NoFile
  /\ \E modules \in ListsUpTo(Modules, MaxProgModules) :
     \E contracts \in ListsUpTo(Contracts, MaxProgModules) :
       /\ Program(names(modules), names(contracts)).st = "ok"
       /\ onprog = [NoProgramRun EXCEPT !.p = [modules |-> modules, contracts |-> contracts]]

\* What a call of runOnProgram leaves in onprog.
Ran(id, r) ==
  [st |-> r.st, err |-> r.err, id |-> id, p |-> onprog.p, result |-> r.result,
   after |-> r.after]

\* p.runOnProgram(btor2) for a pass that inherits it from Pass.
RunOnProgram ==
  /\ onprog.st = "idle"
  /\ \E k \in 1..Len(all_passes) :
       onprog' = Ran(all_passes[k], Pass_runOnProgram(all_passes[k], heap, onprog.p))
  /\ UNCHANGED <<lines, heap, seq_p, par_p, text, pipe, driver, prgm, miter, lc, modp>>

\* ApplyContracts().runOnProgram(btor2)
ApplyContractsRun ==
  /\ onprog.st = "idle"
  /\ onprog' = Ran("apply-contracts", ApplyContracts_runOnProgram(heap, onprog.p))
  /\ UNCHANGED <<lines, heap, seq_p, par_p, text, pipe, driver, prgm, miter, lc, modp>>

OnProgramNext == RunOnProgram \/ ApplyContractsRun

OnProgramSpec == OnProgramInit /\ [][OnProgramNext]_vars

----------------------------------------------------------------------------
(* The textual format of the specification: the opcodes of its data model, *)
(* and for each family the fields its table lists after the opcode: the    *)
(* operand lids first, then the other fields, then an optional name.       *)

SpecBinary ==
  {"add", "sub", "mul", "sdiv", "udiv", "smod", "srem", "urem", "sll", "srl",
   "sra", "and", "or", "xor", "concat", "eq", "neq", "ugt", "sgt", "ugte",
   "sgte", "ult", "slt", "ulte", "slte"}

SpecUnary == {"not", "inc", "dec", "neg", "redor", "redand", "redxor"}

SpecConst == {"constd", "consth", "const"}

SpecTags ==
  {"sort", "input", "state", "output", "bad", "constraint", "zero", "one",
   "ones", "init", "next", "slice", "ite", "implies", "iff", "uext", "sext"}
    \cup SpecConst \cup SpecBinary \cup SpecUnary

\* The opcodes whose first operand is a sort that must be validated.
SortKinded == {"input", "state", "zero", "one", "ones"} \cup SpecConst

\* How many operand lids follow the opcode.
NumLids(tag) ==
  CASE tag = "sort" -> 0
    [] tag \in {"input", "state", "output", "bad", "constraint",
                "zero", "one", "ones"} \cup SpecConst -> 1
    [] tag \in {"slice", "uext", "sext"} \cup SpecUnary -> 2
    [] tag = "ite" -> 4
    [] OTHER -> 3

\* How many fields other than a name follow the operand lids.
NumExtra(tag) ==
  CASE tag \in {"sort", "slice"} -> 2
    [] tag \in {"uext", "sext"} \cup SpecConst -> 1
    [] OTHER -> 0

\* The families that take an optional name.
HasName(tag) == tag \in {"input", "state", "uext", "sext"}

\* The base of the value of a constant.
SpecBase(tag) == CASE tag = "consth" -> 16 [] tag = "const" -> 2 [] OTHER -> 10

IsComment(l) == Len(l) > 0 /\ l[1] = <<";">>

LineTag(l) == TagOf(l[2])

LineLid(l) == IntVal(l[1], 10)

\* The operand lids of a line, in the order of the line.
OperandLids(l) == [j \in 1..NumLids(LineTag(l)) |-> IntVal(l[2 + j], 10)]

\* The fields of a family after its operand lids are what the table says.
ExtraFieldsOk(l, tag) ==
  CASE tag = "sort" -> TagOf(l[3]) \in {"bitvector", "bitvec", "array"} /\ IntOk(l[4], 10)
    [] tag \in SpecConst -> IntOk(l[4], SpecBase(tag))
    [] tag = "slice" -> IntOk(l[5], 10) /\ IntOk(l[6], 10)
    [] tag \in {"uext", "sext"} -> IntOk(l[5], 10)
    [] OTHER -> TRUE

\* A comment, or a lid, an opcode of the data model and the fields of its
\* family.
WellFormedLine(l) ==
  \/ IsComment(l)
  \/ /\ Len(l) >= 2
     /\ IntOk(l[1], 10)
     /\ LineTag(l) \in SpecTags
     /\ \/ Len(l) = 2 + NumLids(LineTag(l)) + NumExtra(LineTag(l))
        \/ HasName(LineTag(l)) /\ Len(l) = 3 + NumLids(LineTag(l)) + NumExtra(LineTag(l))
     /\ \A j \in 1..NumLids(LineTag(l)) : IntOk(l[2 + j], 10)
     /\ ExtraFieldsOk(l, LineTag(l))

WellFormed(s) == \A i \in 1..Len(s) : WellFormedLine(s[i])

\* The lines that are instructions.
Code(s) == {i \in 1..Len(s) : ~IsComment(s[i])}

NoComments(s) == Code(s) = 1..Len(s)

\* The place in the parsed sequence of the instruction of line i.
Pos(s, i) == Cardinality({k \in Code(s) : k <= i})

UniqueLids(s) ==
  \A i \in Code(s) : \A j \in Code(s) : i # j => LineLid(s[i]) # LineLid(s[j])

\* Operand j of line i is the lid of a line before line n.
DeclaredIn(s, i, j, n) ==
  \E k \in Code(s) : k < n /\ LineLid(s[k]) = OperandLids(s[i])[j]

DeclaredBefore(s) ==
  \A i \in Code(s) : \A j \in 1..NumLids(LineTag(s[i])) : DeclaredIn(s, i, j, i)

DeclaredSomewhere(s) ==
  \A i \in Code(s) : \A j \in 1..NumLids(LineTag(s[i])) : DeclaredIn(s, i, j, Len(s) + 1)

IdConsistent(s) == UniqueLids(s) /\ DeclaredBefore(s)

\* No name is left to be defaulted.
NamesExplicit(s) ==
  \A i \in Code(s) :
    HasName(LineTag(s[i])) =>
      Len(s[i]) = 3 + NumLids(LineTag(s[i])) + NumExtra(LineTag(s[i]))

\* The lines, each joined by single spaces and followed by a newline.
RECURSIVE JoinLines(_)
JoinLines(s) ==
  IF Len(s) = 0 THEN <<>>
  ELSE join(<<" ">>, s[1]) \o <<"\n">> \o JoinLines(Tail(s))

\* Element n of the sequence p is the instruction of line i: its opcode is
\* that of the line and its operands are, in the order of the line, the
\* instructions of p with the lids of the line.
IsInstOf(p, n, i) ==
  /\ n \in 1..Len(p)
  /\ p[n] # 0
  /\ heap[p[n]].inst = LineTag(lines[i])
  /\ Len(heap[p[n]].operands) >= NumLids(LineTag(lines[i]))
  /\ \A j \in 1..NumLids(LineTag(lines[i])) :
       /\ heap[p[n]].operands[j].k = "ref"
       /\ \E m \in 1..Len(p) : p[m] = heap[p[n]].operands[j].ref
       /\ heap[heap[p[n]].operands[j].ref].lid = OperandLids(lines[i])[j]

\* Line i is read by the eager parser as an instruction one of whose
\* operand lids no earlier line declares.
ForwardRefAt(i) ==
  /\ ~IsComment(lines[i])
  /\ WellFormedLine(lines[i])
  /\ LineTag(lines[i]) \in tags
  /\ \E j \in 1..NumLids(LineTag(lines[i])) : ~DeclaredIn(lines, i, j, i)

----------------------------------------------------------------------------
(* The claims. *)

\* C1: for a well-formed, id-consistent line sequence, parse(s) and
\* parse(s, deferred=True) both return, the two sequences have the same
\* length, and their i-th elements are equal under Instruction.eq.
C1_StrategyEquivalence ==
  (/\ WellFormed(lines) /\ IdConsistent(lines) /\ NoComments(lines)
   /\ seq_p.st # "idle" /\ par_p.st # "idle") =>
    /\ seq_p.st = "returned"
    /\ par_p.st = "returned"
    /\ Len(seq_p.self.p) = Len(par_p.self.p)
    /\ \A i \in 1..Len(seq_p.self.p) :
         eq(heap[seq_p.self.p[i]], heap[par_p.self.p[i]])

\* C2: for a well-formed line sequence with every name given, the text
\* serialize_p gives for the parsed sequence is the lines themselves, each
\* followed by a newline.
C2_RoundTrip ==
  (/\ WellFormed(lines) /\ IdConsistent(lines) /\ NamesExplicit(lines)
   /\ NoComments(lines) /\ text.st # "idle") =>
    /\ text.st = "returned"
    /\ text.s = JoinLines(lines)

\* C3: for a line sequence with unique lids whose operand lids are all
\* declared somewhere, in any order, parseDeferred returns and every operand
\* of every instruction is the instruction of the returned sequence whose
\* lid is the integer value of the operand token.
C3_DeferredResolution ==
  (/\ WellFormed(lines) /\ UniqueLids(lines) /\ DeclaredSomewhere(lines)
   /\ NoComments(lines) /\ par_p.st # "idle") =>
    /\ par_p.st = "returned"
    /\ Len(par_p.self.p) = Len(lines)
    /\ \A i \in 1..Len(lines) : IsInstOf(par_p.self.p, i, i)

\* C4: in parseSeq a line one of whose operand lids no earlier line declares
\* makes the call fail: the call raises at that line or before it, at that
\* line the error is the undeclared-instruction assertion of find_inst and
\* the list holds the instructions of the earlier lines only, and the parser
\* is not done, so parse returns nothing.
C4_EagerForwardReference ==
  \A i \in 1..Len(lines) :
    (seq_p.st # "idle" /\ ForwardRefAt(i)) =>
      /\ seq_p.st = "raised"
      /\ seq_p.line \in 1..i
      /\ ~seq_p.self.done
      /\ Len(seq_p.self.p) <= Pos(lines, i) - 1
      /\ seq_p.line = i =>
           /\ seq_p.err = "UndeclaredInstruction"
           /\ Len(seq_p.self.p) = Pos(lines, i) - 1

\* The eager parser has stopped at the second line, a forward reference,
\* with the instruction of the first line in its list.
C4_Witness ==
  /\ Len(lines) >= 2
  /\ ForwardRefAt(2)
  /\ seq_p.st = "raised"
  /\ seq_p.line = 2
  /\ seq_p.err = "UndeclaredInstruction"
  /\ Len(seq_p.self.p) = 1

\* C5: if some operand lid of the line sequence is declared by no line,
\* parseDeferred fails with the unresolved-reference error and returns no
\* sequence.
C5_DeferredUnresolved ==
  (/\ WellFormed(lines) /\ ~DeclaredSomewhere(lines) /\ par_p.st # "idle") =>
    /\ par_p.st = "raised"
    /\ par_p.err = "UndeclaredInstruction"

\* C6: in every sequence a parser returns, the first operand of each input,
\* state and constant is a Sort, so a line whose sort operand names an
\* instruction that is not a Sort does not parse.
C6_SortKindValidation ==
  \A c \in {seq_p, par_p} :
    c.st = "returned" =>
      \A i \in 1..Len(c.self.p) :
        (c.self.p[i] # 0 /\ heap[c.self.p[i]].cls \in SortKinded) =>
          /\ Len(heap[c.self.p[i]].operands) >= 1
          /\ heap[c.self.p[i]].operands[1].k = "ref"
          /\ heap[heap[c.self.p[i]].operands[1].ref].cls = "sort"

\* C7: on a well-formed, id-consistent line sequence that holds comment
\* lines, each strategy returns exactly the instructions of the other
\* lines, in order, and no element stands for a comment.
C7_CommentsIgnored ==
  \A c \in {seq_p, par_p} :
    (/\ WellFormed(lines) /\ IdConsistent(lines) /\ ~NoComments(lines)
     /\ c.st # "idle") =>
      /\ c.st = "returned"
      /\ Len(c.self.p) = Cardinality(Code(lines))
      /\ \A i \in Code(lines) : IsInstOf(c.self.p, Pos(lines, i), i)

\* C8: a line that carries the fields the format lists for an opcode of the
\* data model is neither rejected as unsupported nor fails while its
\* instruction is constructed, and it parses to an instruction with that
\* opcode and the operands of the line in order.
C8_OpcodeCoverage ==
  (/\ WellFormed(lines) /\ IdConsistent(lines) /\ NoComments(lines)
   /\ seq_p.st # "idle") =>
    /\ seq_p.err \notin {"UnsupportedOperation", "TypeError"}
    /\ seq_p.st = "returned" => \A i \in 1..Len(lines) : IsInstOf(seq_p.self.p, i, i)

\* C9: the value stored on a parsed constant is its value token read in
\* base 10 for constd, 16 for consth and 2 for const, in both strategies,
\* and reading a value token of its base does not fail.
C9_ConstantBases ==
  \A c \in {seq_p, par_p} :
    (WellFormed(lines) /\ NoComments(lines) /\ c.st # "idle") =>
      /\ c.err # "ValueError"
      /\ \A i \in 1..Len(c.self.p) :
           (c.self.p[i] # 0 /\ LineTag(lines[i]) \in SpecConst) =>
             heap[c.self.p[i]].value =
               IntVal(lines[i][4], SpecBase(LineTag(lines[i])))

\* C10: in every sequence parseSeq or parseDeferred returns, the lids are
\* pairwise distinct.
C10_LidUniqueness ==
  \A c \in {seq_p, par_p} :
    c.st = "returned" =>
      \A i \in 1..Len(c.self.p) : \A j \in 1..Len(c.self.p) :
        (i # j /\ c.self.p[i] # 0 /\ c.self.p[j] # 0) =>
          heap[c.self.p[i]].lid # heap[c.self.p[j]].lid

----------------------------------------------------------------------------
(* The passes.  pipe.arg is the list the last pass was given, pipe.pre the *)
(* objects as they were when it was called, pipe.p the list it returned.   *)

\* The last pass that was run is the one with that id.
LastRan(id) == pipe.st # "idle" /\ pipe.ran[Len(pipe.ran)] = id

\* How many Inputs the list p holds before place n.
InputsBefore(h, p, n) == Cardinality({j \in 1..(n - 1) : h[p[j]].cls = "input"})

\* Instruction a is an Init whose state operand is the object s.
IsInitOf(h, a, s) ==
  /\ h[a].cls = "init"
  /\ Len(h[a].operands) = 3
  /\ h[a].operands[2].k = "ref"
  /\ h[a].operands[2].ref = s

\* The places of p that hold an Init of the object s.
InitsOf(h, p, s) == {m \in 1..Len(p) : IsInitOf(h, p[m], s)}

\* C11: RenameInputs.run(p) returns a sequence as long as p where the k-th
\* Input of p (from 0) is replaced, in place, by an Input of the same lid
\* and sort named inp_<k>, every other instruction is the one of p, and no
\* object of p is modified.
C11_RenameInputs ==
  LastRan("rename-inputs") =>
    /\ pipe.st = "ok"
    /\ Len(pipe.p) = Len(pipe.arg)
    /\ \A n \in 1..Len(pipe.arg) :
         IF pipe.pre[pipe.arg[n]].cls = "input"
         THEN /\ heap[pipe.p[n]].cls = "input"
              /\ heap[pipe.p[n]].lid = pipe.pre[pipe.arg[n]].lid
              /\ heap[pipe.p[n]].operands[1] = pipe.pre[pipe.arg[n]].operands[1]
              /\ heap[pipe.p[n]].name = inp_name(InputsBefore(pipe.pre, pipe.arg, n))
         ELSE pipe.p[n] = pipe.arg[n]
    /\ \A a \in 1..Len(pipe.pre) : heap[a] = pipe.pre[a]

\* C12: after InitAllStates.run(p) on a design of distinct lids where no
\* State has two Inits, every State of the output is the state operand of
\* exactly one Init of the output; a State no Init of p referenced is
\* followed at once by a constant of value 0 of its sort and an Init of the
\* state with that constant, and a State p initialized keeps its one Init.
C12_InitAllStatesCoverage ==
  (/\ LastRan("init-all-states") /\ pipe.st = "ok"
   /\ UniqueLids(lines)
   /\ \A n \in 1..Len(pipe.arg) :
        Cardinality(InitsOf(pipe.pre, pipe.arg, pipe.arg[n])) <= 1) =>
    /\ \A n \in 1..Len(pipe.p) :
         heap[pipe.p[n]].cls = "state" =>
           Cardinality(InitsOf(heap, pipe.p, pipe.p[n])) = 1
    /\ \A n \in 1..Len(pipe.p) :
         (/\ heap[pipe.p[n]].cls = "state"
          /\ \E k \in 1..Len(pipe.arg) : pipe.arg[k] = pipe.p[n]
          /\ InitsOf(pipe.pre, pipe.arg, pipe.p[n]) = {}) =>
           /\ n + 2 <= Len(pipe.p)
           /\ pipe.p[n + 1] > Len(pipe.pre)
           /\ heap[pipe.p[n + 1]].inst = "constd"
           /\ heap[pipe.p[n + 1]].value = 0
           /\ heap[pipe.p[n + 1]].operands[1] = heap[pipe.p[n]].operands[1]
           /\ pipe.p[n + 2] > Len(pipe.pre)
           /\ IsInitOf(heap, pipe.p[n + 2], pipe.p[n])
           /\ heap[pipe.p[n + 2]].operands[3] = Ref(pipe.p[n + 1])

\* C13: in the sequence InitAllStates.run(p) returns, the instruction at
\* place i counted from 0 has lid i + 1, the synthesized ones included, and
\* the instructions of p are there in the order they had in p.
C13_InitAllStatesRenumbering ==
  (LastRan("init-all-states") /\ pipe.st = "ok") =>
    /\ \A i \in 1..Len(pipe.p) : heap[pipe.p[i]].lid = (i - 1) + 1
    /\ SelectSeq(pipe.p, LAMBDA a : \E n \in 1..Len(pipe.arg) : pipe.arg[n] = a)
         = pipe.arg

\* The pass returned a sequence with synthesized instructions in it and
\* moved the lid of an instruction of p.
C13_Witness ==
  /\ LastRan("init-all-states") /\ pipe.st = "ok"
  /\ Len(pipe.p) > Len(pipe.arg)
  /\ \E n \in 1..Len(pipe.arg) : heap[pipe.arg[n]].lid # pipe.pre[pipe.arg[n]].lid

\* C14: CheckLidOrdering.run(p) returns the instructions of p in the order
\* of p, and the instruction at place i counted from 0 has lid i.
C14_CheckLidOrdering ==
  (LastRan("check-lid-ordering") /\ pipe.st # "idle") =>
    /\ pipe.st = "ok"
    /\ pipe.p = pipe.arg
    /\ \A i \in 1..Len(pipe.p) : heap[pipe.p[i]].lid = i - 1

\* The pass ran on two instructions or more and moved a lid.
C14_Witness ==
  /\ LastRan("check-lid-ordering") /\ pipe.st = "ok"
  /\ Len(pipe.p) >= 2
  /\ \E n \in 1..Len(pipe.p) : heap[pipe.p[n]].lid # pipe.pre[pipe.p[n]].lid

\* C15: every instruction of a sequence obtained by parsing a well-formed
\* design and running registered passes on it, in any combination, has a
\* lid of 1 or more.
C15_PositiveLids ==
  (/\ WellFormed(lines) /\ IdConsistent(lines)
   /\ seq_p.st = "returned" /\ pipe.st \in {"idle", "ok"}) =>
    \A i \in 1..Len(IF pipe.st = "idle" THEN seq_p.self.p ELSE pipe.p) :
      heap[(IF pipe.st = "idle" THEN seq_p.self.p ELSE pipe.p)[i]].lid >= 1

C17_PipelineOrder ==
  (/\ driver.st # "idle"
   /\ driver.parse_st = "returned"
   /\ \A i \in 1..Len(driver.names) : find_pass(all_passes, driver.names[i]) # "None") =>
    driver.executed = driver.names

----------------------------------------------------------------------------
(* The miter.  miter.p1 and miter.p2 are the lists merge was given,        *)
(* miter.pre the objects as they were at the call.                         *)

\* The places of p that hold an Input.
InputsOf(h, p) == {i \in 1..Len(p) : h[p[i]].cls = "input"}

\* The names of the Inputs of p, in the order of p.
InputNames(h, p) ==
  [i \in 1..Cardinality(InputsOf(h, p)) |->
     h[p[CHOOSE n \in InputsOf(h, p) : Cardinality({j \in InputsOf(h, p) : j <= n}) = i]].name]

\* p ends in an output.
EndsInOutput(h, p) == Len(p) > 0 /\ h[p[Len(p)]].cls = "output"

\* merge was called on two designs that end in their outputs and have the
\* same Inputs.
MiterCase ==
  /\ miter.st # "idle"
  /\ EndsInOutput(miter.pre, miter.p1)
  /\ EndsInOutput(miter.pre, miter.p2)
  /\ InputNames(miter.pre, miter.p1) = InputNames(miter.pre, miter.p2)

\* C19: for p1 of length n1 and p2 of length n2 that end in their outputs
\* and have the same k Inputs, merge(p1, p2) returns a sequence of length
\* (n1 - 1) + (n2 - 1 - k) + 3.
C19_MiterLength ==
  MiterCase =>
    /\ miter.st = "ok"
    /\ Len(miter.p) = (Len(miter.p1) - 1)
         + (Len(miter.p2) - 1 - Cardinality(InputsOf(miter.pre, miter.p1))) + 3

\* C20: merge(p1, p2) returns a sequence without any Input of p2, where
\* every operand of an instruction of p2 that was an Input of p2 is the
\* Input of p1 of that name and sort, and no operand of any instruction is
\* an Input of p2.
C20_MiterInputSharing ==
  MiterCase =>
    /\ miter.st = "ok"
    /\ \A i \in 1..Len(miter.p) : \A n \in InputsOf(miter.pre, miter.p2) :
         miter.p[i] # miter.p2[n]
    /\ \A i \in 1..Len(miter.p) : \A j \in 1..Len(heap[miter.p[i]].operands) :
       \A n \in InputsOf(miter.pre, miter.p2) :
         /\ ~(heap[miter.p[i]].operands[j].k = "ref"
              /\ heap[miter.p[i]].operands[j].ref = miter.p2[n])
         /\ (/\ miter.p[i] <= Len(miter.pre)
             /\ miter.pre[miter.p[i]].operands[j].k = "ref"
             /\ miter.pre[miter.p[i]].operands[j].ref = miter.p2[n]) =>
              \E k \in InputsOf(miter.pre, miter.p1) :
                /\ heap[miter.p[i]].operands[j] = Ref(miter.p1[k])
                /\ heap[miter.p1[k]].name = miter.pre[miter.p2[n]].name

\* The places of p that hold no Input.
NonInputsOf(h, p) == {i \in 1..Len(p) : h[p[i]].cls # "input"}

\* The highest lid of p once its last instruction is removed.
HighestRemaining(h, p) == Max({h[p[i]].lid : i \in 1..(Len(p) - 1)})

\* The lids of the list p are pairwise distinct.
DistinctLids(h, p) ==
  \A i \in 1..Len(p) : \A j \in 1..Len(p) : i # j => h[p[i]].lid # h[p[j]].lid

\* C21: merge(p1, p2) gives the instructions of p2 that are no Inputs
\* consecutive lids, in the order of p2, from one past the highest lid p1
\* keeps once its output is removed, whatever the lids of p1 are; the lids
\* of a merged program are pairwise distinct.
C21_MiterRenumbering ==
  (/\ miter.st # "idle"
   /\ EndsInOutput(miter.pre, miter.p1) /\ Len(miter.p1) >= 2
   /\ EndsInOutput(miter.pre, miter.p2)) =>
    /\ \A n \in NonInputsOf(miter.pre, miter.p2) :
         heap[miter.p2[n]].lid =
           HighestRemaining(miter.pre, miter.p1)
             + Cardinality({j \in NonInputsOf(miter.pre, miter.p2) : j <= n})
    /\ miter.st = "ok" => DistinctLids(heap, miter.p)

\* C22: the last three instructions of merge(p1, p2) are a bitvector Sort
\* of width 1, a Neq of that sort over the operand of the last instruction
\* of p1 and the operand of the last instruction of p2, and a Bad of that
\* Neq; neither output is in the sequence returned.
C22_MiterAssertion ==
  MiterCase =>
    /\ miter.st = "ok"
    /\ Len(miter.p) >= 3
    /\ heap[miter.p[Len(miter.p) - 2]].cls = "sort"
    /\ heap[miter.p[Len(miter.p) - 2]].typ = "bitvector"
    /\ heap[miter.p[Len(miter.p) - 2]].width = 1
    /\ heap[miter.p[Len(miter.p) - 1]].cls = "neq"
    /\ heap[miter.p[Len(miter.p) - 1]].operands =
         <<Ref(miter.p[Len(miter.p) - 2]),
           miter.pre[miter.p1[Len(miter.p1)]].operands[1],
           miter.pre[miter.p2[Len(miter.p2)]].operands[1]>>
    /\ heap[miter.p[Len(miter.p)]].cls = "bad"
    /\ heap[miter.p[Len(miter.p)]].operands = <<Ref(miter.p[Len(miter.p) - 1])>>
    /\ \A i \in 1..Len(miter.p) :
         miter.p[i] \notin {miter.p1[Len(miter.p1)], miter.p2[Len(miter.p2)]}

----------------------------------------------------------------------------
(* Operands across the passes. *)

\* Every operand of an instruction of p that is an instruction is a member
\* of p.
OperandsClosed(h, p) ==
  \A i \in 1..Len(p) : \A j \in 1..Len(h[p[i]].operands) :
    h[p[i]].operands[j].k = "ref" =>
      \E k \in 1..Len(p) : p[k] = h[p[i]].operands[j].ref

----------------------------------------------------------------------------
(* The life of a Parser object. *)

\* C29: on one Parser object a parse call made while done is True fails
\* and leaves p and context as they were; clear() leaves p and context
\* empty and done False; and a parse call made while done is False finds p
\* empty, also after an earlier parse call failed part-way.
C29_ParserLifecycle ==
  /\ (lc.last \in {"parseSeq", "parseDeferred"} /\ lc.before.done) =>
       /\ lc.st = "raised"
       /\ lc.self.p = lc.before.p
       /\ lc.self.context = lc.before.context
  /\ lc.last = "clear" =>
       lc.self.p = <<>> /\ lc.self.context = {} /\ ~lc.self.done
  /\ (lc.last \in {"parseSeq", "parseDeferred"} /\ ~lc.before.done) =>
       lc.before.p = <<>>

----------------------------------------------------------------------------
(* The module parser.  modp.op is the call made on the file, modp.at the   *)
(* line scan_body was called on, modp.body and modp.i what it returned,    *)
(* modp.trail the lines parse_file was at, one per round of its loop.      *)

\* The lines after line i that are a "}" once stripped (lines count from 0).
ClosesAfter(file, i) ==
  {j \in (i + 1)..(Len(file) - 1) : strip(file[j + 1]) = <<"}">>}

\* The line ends with "{", whitespace aside.
EndsWithBrace(line) ==
  split(strip(line))[Len(split(strip(line)))] = <<"{">>

\* The line begins with a numeric lid, whitespace aside.
BeginsWithLid(line) ==
  /\ Len(split(strip(line))[1]) > 0
  /\ \A k \in 1..Len(split(strip(line))[1]) :
        split(strip(line))[1][k] \in {"0", "1", "2", "3", "4", "5", "6", "7", "8", "9"}

\* The lines strictly between line i and line j, in order.
Between(file, i, j) == [k \in 1..(j - i - 1) |-> file[i + 1 + k]]

\* scan_body has been called on a header line and returned.
Scanned == modp.op = "scan_body" /\ modp.st = "returned"

NamesAModule(line) ==
  \/ /\ Len(split(strip(line))) >= 3
     /\ split(strip(line))[2] \in {<<"inst">>, <<"ref">>}
  \/ /\ Len(split(strip(line))) >= 2
     /\ split(strip(line))[1] = <<"contract">>

\* The module the line names.
ModuleNamed(line) ==
  IF split(strip(line))[1] = <<"contract">> THEN split(strip(line))[2]
  ELSE split(strip(line))[3]

\* A module block named name lies completely before line j (lines count
\* from 0): its header and its closing line do.
DefinedBefore(file, name, j) ==
  \E hd \in 0..(j - 1) :
    /\ Len(split(strip(file[hd + 1]))) >= 2
    /\ split(strip(file[hd + 1]))[1] = <<"module">>
    /\ split(strip(file[hd + 1]))[2] = name
    /\ \E c \in ClosesAfter(file, hd) : c < j

\* C25, no forward module references: every Instance in the body of a
\* module parse_file has built names a module built before that one, and
\* parse_file does not return when an inst line, a ref line or a contract
\* header of the file names a module of which no block lies completely
\* before that line (a module defined later, the module being parsed, or
\* none).
C25_NoForwardReferences ==
  modp.op = "parse_file" =>
    /\ \A k \in 1..Len(modp.modules) :
       \A n \in 1..Len(modp.modules[k].body) :
         heap[modp.modules[k].body[n]].cls = "inst" =>
           \E e \in 1..(k - 1) :
             modp.modules[e].name = heap[modp.modules[k].body[n]].name
    /\ \A k \in 1..Len(modp.contracts) :
       \E e \in 1..Len(modp.modules) : modp.modules[e].name = modp.contracts[k].name
    /\ (\E j \in 0..(Len(lines) - 1) :
          /\ NamesAModule(lines[j + 1])
          /\ ~DefinedBefore(lines, ModuleNamed(lines[j + 1]), j)) =>
         modp.st # "returned"

\* parse_file returned a module with an Instance of the module before it.
C25_Witness ==
  /\ modp.op = "parse_file"
  /\ modp.st = "returned"
  /\ Len(modp.modules) = 2
  /\ Len(modp.modules[2].body) = 1
  /\ heap[modp.modules[2].body[1]].cls = "inst"
  /\ heap[modp.modules[2].body[1]].name = modp.modules[1].name

\* The header lines of the module blocks parse_file has been at.
ModuleHeaders ==
  {i \in 0..(Len(lines) - 1) :
     /\ \E k \in 1..Len(modp.trail) : modp.trail[k] = i
     /\ split(strip(lines[i + 1]))[1] = <<"module">>}

\* The header line of the k-th of them.
HeaderOf(k) ==
  CHOOSE i \in ModuleHeaders : Cardinality({j \in ModuleHeaders : j < i}) = k - 1

\* The lines of a block that are no comments.
NonComments(block) == SelectSeq(block, LAMBDA l : split(strip(l))[1] # <<";">>)

\* The lines of the block of the k-th module that are no comments.
BlockOf(k) ==
  NonComments(Between(lines, HeaderOf(k), Min(ClosesAfter(lines, HeaderOf(k)))))

\* C27, module body completeness: after parse_file has returned, the body
\* of each module has one instruction for each line of its block that is
\* no comment, in the order of the lines and with the lid of its line,
\* standard instructions as well as inst, ref and set.
C27_BodyCompleteness ==
  (modp.op = "parse_file" /\ modp.st = "returned") =>
    \A k \in 1..Len(modp.modules) :
      /\ Len(modp.modules[k].body) = Len(BlockOf(k))
      /\ \A n \in 1..Len(modp.modules[k].body) :
            heap[modp.modules[k].body[n]].lid = IntVal(split(strip(BlockOf(k)[n]))[1], 10)

----------------------------------------------------------------------------
(* Passes on a Program.  onprog.p is the Program runOnProgram was given,   *)
(* onprog.id the pass, onprog.result the Program it returned.              *)

\* The addresses of a body without lists.
AddressesOf(body) == [j \in 1..Len(body) |-> body[j].ref]

\* runOnProgram of a pass that inherits it from Pass has been called.
RanGeneric == onprog.st # "idle" /\ onprog.id # "apply-contracts"

\* runOnProgram of ApplyContracts has been called.
RanApplyContracts == onprog.st # "idle" /\ onprog.id = "apply-contracts"

\* C23, deterministic program-level pass application: runOnProgram of a
\* pass returns, and module i of the Program it returns has the name of
\* module i of the Program given and the body that run of the pass
\* returns when it is called on the body of that module alone.
C23_DeterministicRunOnProgram ==
  RanGeneric =>
    /\ onprog.st = "ok"
    /\ Len(onprog.result.modules) = Len(onprog.p.modules)
    /\ \A i \in 1..Len(onprog.p.modules) :
         /\ onprog.result.modules[i].cls = "Module"
         /\ onprog.result.modules[i].name = onprog.p.modules[i].name
         /\ run(onprog.id, heap, AddressesOf(onprog.p.modules[i].body)).st = "ok"
         /\ AddressesOf(onprog.result.modules[i].body)
              = run(onprog.id, heap, AddressesOf(onprog.p.modules[i].body)).p

\* C26, ApplyContracts leaves no contract: the Program that runOnProgram of
\* ApplyContracts returns has no contract and has, at the place of every
\* module of the Program given, a Module of the same name, never None.
C26_NoContractLeft ==
  (RanApplyContracts /\ onprog.st = "ok") =>
    /\ onprog.result.contracts = <<>>
    /\ Len(onprog.result.modules) = Len(onprog.p.modules)
    /\ \A i \in 1..Len(onprog.p.modules) :
         /\ onprog.result.modules[i].cls = "Module"
         /\ onprog.result.modules[i].name = onprog.p.modules[i].name

\* The entry is an Instance.
IsInstance(h, e) == e.k = "inst" /\ h[e.ref].cls = "inst"

\* The module of p the Instance e names (the names of p are distinct).
Instantiated(h, p, e) ==
  p.modules[CHOOSE k \in 1..Len(p.modules) : p.modules[k].name = h[e.ref].name]

\* Every module of p has a name of its own, every Instance names a module
\* of p, and an instantiated module has no Instance in its own body.
Inlinable(h, p) ==
  /\ \A i \in 1..Len(p.modules) : \A j \in 1..Len(p.modules) :
        p.modules[i].name = p.modules[j].name => i = j
  /\ \A i \in 1..Len(p.modules) : \A n \in 1..Len(p.modules[i].body) :
        IsInstance(h, p.modules[i].body[n]) =>
          /\ \E k \in 1..Len(p.modules) :
                p.modules[k].name = h[p.modules[i].body[n].ref].name
          /\ \A j \in 1..Len(Instantiated(h, p, p.modules[i].body[n]).body) :
                ~IsInstance(h, Instantiated(h, p, p.modules[i].body[n]).body[j])

\* The body with every Instance replaced, at its place, by the body of the
\* module it names.
RECURSIVE Inlined(_, _, _)
Inlined(h, p, body) ==
  IF Len(body) = 0 THEN <<>>
  ELSE (IF IsInstance(h, body[1]) THEN Instantiated(h, p, body[1]).body
        ELSE <<body[1]>>) \o Inlined(h, p, Tail(body))

\* The Instances of the body name modules without a contract.
InlinesOnly(h, p, body) ==
  \A n \in 1..Len(body) :
    IsInstance(h, body[n]) => get_contract(p, h[body[n].ref].name).cls = "NoneType"

\* C28, ApplyContracts inlining: on a Program whose Instances can be
\* inlined, runOnProgram of ApplyContracts returns; the body of every
\* Module of the result is a flat sequence of instructions; and a module
\* whose Instances all name modules without a contract has each of them
\* replaced, at its place, by the body of the module it names, whether
\* the enclosing module has a contract or not.
C28_Inlining ==
  (RanApplyContracts /\ Inlinable(heap, onprog.p)) =>
    /\ onprog.st = "ok"
    /\ \A i \in 1..Len(onprog.result.modules) :
         onprog.result.modules[i].cls = "Module" =>
           /\ \A n \in 1..Len(onprog.result.modules[i].body) :
                 onprog.result.modules[i].body[n].k = "inst"
           /\ InlinesOnly(heap, onprog.p, onprog.p.modules[i].body) =>
                 onprog.result.modules[i].body
                   = Inlined(heap, onprog.p, onprog.p.modules[i].body)

====
